---- MODULE Spec2Model ----
(***************************************************************************)
(* Tessera: document lifecycle, deconstruction, key rotation,             *)
(* reconstruction and destruction, modelled over one document row and its  *)
(* dependent tables.  Database state is the committed state; a transaction *)
(* keeps its writes in its task record until COMMIT and discards them on   *)
(* ROLLBACK.  Row locks are modelled where the SQL takes them.             *)
(***************************************************************************)
EXTENDS Integers, Sequences, FiniteSets, TLC

\* ------------------------------------------------------------------ bounds
MaxKeys == 3
MaxBlocks == 2
MaxDays == 2
MaxRows == 3
MaxSecretLength == 2
MaxTotalShares == 3
MaxPlaintextLength == 2
MaxOperations == 3

\* --------------------------------------------------------------- constants
Null == "null"
Sets == {"A", "B"}
SetOrder == <<"A", "B">>
Rotators == {1, 2}
DefaultMarkerWidth == 3
\* Length in bytes of the keys generateKey derives.
KeyLength == 32
\* The largest share count splitSecret accepts.
MaxShares == 254
\* GCM initialization vector and authentication tag lengths in bytes.
IV_LENGTH == 12
AUTH_TAG_LENGTH == 16
\* Stands for U+2588, the full block.
BLOCK_CHAR == "#"

Status ==
  {"intake", "intake_flagged", "intake_cleared", "markup", "markup_submitted",
   "review", "review_escalated", "approved", "deconstructing", "active",
   "destroying", "destroyed"}

CoreStatus == {"approved", "deconstructing", "active", "destroying", "destroyed"}

\* ------------------------------------------------------------ pure helpers
Range(s) == {s[i] : i \in 1..Len(s)}

\* sha512 is modelled as an injective tagging of its input.
sha512(x) == <<"sha512", x>>

\* JavaScript `x || ''` on a nullable string.
OrEmpty(x) == IF x = Null \/ x = "" THEN "" ELSE x

\* The markup sessions a caller can name: S1 is the document's session,
\* S2 a session of another document that is still being edited.
SessionIds == {"S1", "S2"}

\* Each session's assignments in the order the SELECT returns them
\* (ORDER BY content_set_identifier, page_number, block_id, start_offset).
\* blk stands for the positional key (block_id, start_offset, end_offset).
AssignmentChoices ==
  [S1 |-> <<[cs |-> "A", blk |-> 1, text |-> "t"],
            [cs |-> "B", blk |-> 1, text |-> "t"],
            [cs |-> "B", blk |-> 2, text |-> Null]>>,
   S2 |-> <<[cs |-> "B", blk |-> 2, text |-> "u"]>>]

\* The assignment tables a session can hold, up to MaxRows rows over the
\* sets and positions, as the SELECT returns them: ordered by content set,
\* then position.  A position's selected text is the same in every row.
RowChoices ==
  [k \in 1..(Len(SetOrder) * MaxBlocks) |->
     LET blk == ((k - 1) % MaxBlocks) + 1
     IN [cs |-> SetOrder[((k - 1) \div MaxBlocks) + 1], blk |-> blk,
         text |-> IF blk = 1 THEN "t" ELSE Null]]

AssignmentTables ==
  {[i \in 1..Len(g) |-> RowChoices[g[i]]] :
     g \in {h \in UNION {[1..m -> 1..Len(RowChoices)] : m \in 1..MaxRows} :
              \A i \in 1..(Len(h) - 1) : h[i] <= h[i + 1]}}

\* Array.prototype.sort by block/offset; stable, so ties keep SELECT order.
RECURSIVE SortByBlock(_, _)
SortByBlock(rows, b) ==
  IF b > MaxBlocks THEN <<>>
  ELSE SelectSeq(rows, LAMBDA a : a.blk = b) \o SortByBlock(rows, b + 1)

allAssignments(rows) == SortByBlock(rows, 1)

\* Index of the marker already created for a positional key, 0 if none.
MarkerAt(markers, blk) ==
  IF \E j \in 1..Len(markers) : markers[j].blk = blk
  THEN CHOOSE j \in 1..Len(markers) : markers[j].blk = blk
  ELSE 0

\* A merge that appends the identifier without looking for it first.
MergeAlways(m, cs) ==
  [m EXCEPT !.contentSetMembership = Append(@, cs), !.isMerged = TRUE]

MergeInto(m, cs) ==
  IF cs \in Range(m.contentSetMembership) THEN m
  ELSE [m EXCEPT !.contentSetMembership = Append(@, cs), !.isMerged = TRUE]

NewMarker(entry, pos) ==
  [markerId |-> pos, contentSetMembership |-> <<entry.cs>>, blk |-> entry.blk,
   contentHash |-> sha512(OrEmpty(entry.text)), isMerged |-> FALSE,
   sequencePosition |-> pos]

RECURSIVE BuildMarkers(_, _, _)
BuildMarkers(sorted, i, markers) ==
  IF i > Len(sorted) THEN markers
  ELSE LET e == sorted[i]
           j == MarkerAt(markers, e.blk)
       IN IF j # 0
          THEN BuildMarkers(sorted, i + 1,
                 [markers EXCEPT ![j] = MergeInto(markers[j], e.cs)])
          ELSE BuildMarkers(sorted, i + 1,
                 Append(markers, NewMarker(e, Len(markers) + 1)))

Markers(rows) == BuildMarkers(allAssignments(rows), 1, <<>>)

\* The payload of one content set: one entry per assignment of that set.
RECURSIVE BuildPayload(_, _, _, _)
BuildPayload(sorted, i, markers, cs) ==
  IF i > Len(sorted) THEN <<>>
  ELSE LET e == sorted[i]
           rest == BuildPayload(sorted, i + 1, markers, cs)
       IN IF e.cs = cs
          THEN <<[markerId |-> markers[MarkerAt(markers, e.blk)].markerId,
                  content |-> e.text]>> \o rest
          ELSE rest

contentSetPayloads(rows, cs) ==
  BuildPayload(allAssignments(rows), 1, Markers(rows), cs)

\* Identifiers that own at least one assignment, in Map insertion order.
contentSets(rows) == SelectSeq(SetOrder, LAMBDA s : \E i \in 1..Len(rows) : rows[i].cs = s)

\* contentByMarker.get(markerId): the last entry with that id, Null if none.
contentByMarker(payload, id) ==
  LET hits == {i \in 1..Len(payload) : payload[i].markerId = id}
  IN IF hits = {} THEN [found |-> FALSE, content |-> Null]
     ELSE [found |-> TRUE,
           content |-> payload[CHOOSE i \in hits : \A k \in hits : k <= i].content]

\* BLOCK_CHAR.repeat(n) for n in 3..10, the only widths the clamp lets through.
BlockRun ==
  <<"###", "####", "#####", "######", "#######", "########", "#########",
    "##########">>

\* A marker of the default width whatever the tenant's profile says.
makeDefaultMarker(width) == BlockRun[1]

makeRedactionMarker(width) ==
  LET clamped == IF width < 3 THEN 3 ELSE IF width > 10 THEN 10 ELSE width
  IN BlockRun[clamped - 2]

\* security_profiles.marker_width: no row (0), or a value its CHECK
\* constraint admits.
ProfileWidths == {0} \cup 3..10

\* profileResult.rows[0]?.marker_width || 3
ProfileMarkerWidth(w) == IF w = 0 THEN DefaultMarkerWidth ELSE w

\* The loop over marker.contentSetMembership of the view assembly.
RECURSIVE AccessVia(_, _, _, _, _)
AccessVia(rows, marker, i, authorizedSets, decrypted) ==
  IF i > Len(marker.contentSetMembership)
  THEN [content |-> Null, accessedViaSet |-> Null]
  ELSE LET setId == marker.contentSetMembership[i]
           entry == contentByMarker(contentSetPayloads(rows, setId), marker.markerId)
       IN IF setId \in authorizedSets /\ setId \in decrypted /\ entry.found
          THEN IF sha512(OrEmpty(entry.content)) # marker.contentHash
               THEN AccessVia(rows, marker, i + 1, authorizedSets, decrypted)
               ELSE [content |-> entry.content, accessedViaSet |-> setId]
          ELSE AccessVia(rows, marker, i + 1, authorizedSets, decrypted)

reconstructedBlocks(rows, authorizedSets, decrypted, markerWidth) ==
  LET markers == Markers(rows)
  IN [p \in 1..Len(markers) |->
        LET a == AccessVia(rows, markers[p], 1, authorizedSets, decrypted)
        IN [markerId |-> markers[p].markerId,
            content |-> IF a.content # Null THEN a.content
                        ELSE makeRedactionMarker(markerWidth),
            isRedacted |-> a.content = Null,
            accessedViaSet |-> a.accessedViaSet]]


\* ------------------------------------------------------- key splitting
\* CONSTRAINT valid_key_split on security_profiles.
valid_key_split(key_split_m, key_split_n) ==
  key_split_m > 0 /\ key_split_m <= key_split_n

\* The column defaults of security_profiles.key_split_m and key_split_n.
DefaultKeySplit == [m |-> 2, n |-> 3]

\* The key splits a tenant's security profile can hold.
KeySplitChoices ==
  {p \in [m : {1, 2, 3, MaxShares, MaxShares + 1},
           n : {1, 2, 3, MaxShares, MaxShares + 1}] : valid_key_split(p.m, p.n)}

\* shamirConfig = { threshold: doc.key_split_m || 3,
\*                  totalShares: doc.key_split_n || 5 }
shamirConfig(profile) ==
  [threshold |-> IF profile.m = 0 THEN 3 ELSE profile.m,
   totalShares |-> IF profile.n = 0 THEN 5 ELSE profile.n]

\* The error splitSecret throws on its arguments, "none" if it accepts them.
splitSecretError(threshold, totalShares, secretLength) ==
  IF threshold < 2 THEN "Threshold must be at least 2"
  ELSE IF totalShares < threshold THEN "Total shares must be >= threshold"
  ELSE IF totalShares > MaxShares THEN "Maximum 254 shares"
  ELSE IF secretLength = 0 THEN "Secret cannot be empty"
  ELSE "none"

\* ------------------------------------------------ Shamir's Secret Sharing
\* a ^ b on operands of the given number of bits.
RECURSIVE BitXor(_, _, _)
BitXor(a, b, bits) ==
  IF bits = 0 THEN 0
  ELSE ((a + b) % 2) + 2 * BitXor(a \div 2, b \div 2, bits - 1)

gfAdd(a, b) == BitXor(a, b, 8)

\* initTables: x = x << 1; if (x & 0x100) x ^= 0x11B, starting from x = 1.
TableStep(x) == IF 2 * x >= 256 THEN BitXor(2 * x, 283, 9) ELSE 2 * x

\* The values x takes in the loop of initTables, appended n at a time.
RECURSIVE TableRun(_, _)
TableRun(t, n) ==
  IF n = 0 THEN t ELSE TableRun(Append(t, TableStep(t[Len(t)])), n - 1)

\* The 255 iterations, computed in five runs so that no evaluation nests
\* deeper than one run.
TableX51 == TableRun(<<1>>, 50)
TableX102 == TableRun(TableX51, 51)
TableX153 == TableRun(TableX102, 51)
TableX204 == TableRun(TableX153, 51)
TableX255 == TableRun(TableX204, 51)

\* EXP_TABLE[i] = x for i = 0..254, and EXP_TABLE[255] = EXP_TABLE[0].
EXP_TABLE == [i \in 0..255 |-> TableX255[(i % 255) + 1]]

\* LOG_TABLE[x] = i, assigned for i = 0..254 in turn: the last i with
\* EXP_TABLE[i] = x stays; an entry never assigned keeps the 0 the
\* Uint8Array was created with.
LOG_TABLE ==
  [x \in 0..255 |->
     LET at == {i \in 0..254 : EXP_TABLE[i] = x}
     IN IF at = {} THEN 0 ELSE CHOOSE i \in at : \A j \in at : j <= i]

gfMul(a, b) ==
  IF a = 0 \/ b = 0 THEN 0
  ELSE EXP_TABLE[(LOG_TABLE[a] + LOG_TABLE[b]) % 255]

\* -1 stands for the throw on b = 0.
gfDiv(a, b) ==
  IF b = 0 THEN -1
  ELSE IF a = 0 THEN 0
  ELSE EXP_TABLE[(LOG_TABLE[a] - LOG_TABLE[b] + 255) % 255]

\* Horner evaluation from the highest coefficient; coefficients[1] is the
\* constant term (the secret byte).
RECURSIVE evalPolyFrom(_, _, _, _)
evalPolyFrom(coefficients, x, i, result) ==
  IF i = 0 THEN result
  ELSE evalPolyFrom(coefficients, x, i - 1,
                    gfAdd(gfMul(result, x), coefficients[i]))

evalPoly(coefficients, x) == evalPolyFrom(coefficients, x, Len(coefficients), 0)

\* The inner loop of lagrangeInterpolate for point i: numerator over
\* denominator.
RECURSIVE LagrangeTerm(_, _, _, _, _)
LagrangeTerm(points, i, j, numerator, denominator) ==
  IF j > Len(points) THEN gfDiv(numerator, denominator)
  ELSE IF j = i THEN LagrangeTerm(points, i, j + 1, numerator, denominator)
  ELSE LagrangeTerm(points, i, j + 1, gfMul(numerator, points[j].x),
                    gfMul(denominator, gfAdd(points[i].x, points[j].x)))

RECURSIVE LagrangeSum(_, _, _)
LagrangeSum(points, i, secret) ==
  IF i > Len(points) THEN secret
  ELSE LagrangeSum(points, i + 1,
                   gfAdd(secret, gfMul(points[i].y,
                                       LagrangeTerm(points, i, 1, 1, 1))))

lagrangeInterpolate(points) == LagrangeSum(points, 1, 0)

\* splitSecret on accepted arguments; randomCoeffs[b] are the threshold - 1
\* random bytes drawn for byte b of the secret.
splitSecret(secret, threshold, totalShares, randomCoeffs) ==
  [shareIdx \in 1..totalShares |->
     [index |-> shareIdx,
      data |-> [byteIdx \in 1..Len(secret) |->
                  evalPoly(<<secret[byteIdx]>> \o randomCoeffs[byteIdx],
                           shareIdx)]]]

\* reconstructSecret: the error it throws, or the interpolated secret.
reconstructSecret(shares, secretLength) ==
  IF Len(shares) < 2
  THEN [error |-> "Need at least 2 shares to reconstruct", secret |-> <<>>]
  ELSE IF \E k \in 1..Len(shares) : Len(shares[k].data) # secretLength
  THEN [error |-> "Share has wrong length", secret |-> <<>>]
  ELSE IF Cardinality({shares[k].index : k \in 1..Len(shares)}) # Len(shares)
  THEN [error |-> "Duplicate share indices detected", secret |-> <<>>]
  ELSE [error |-> "none",
        secret |-> [byteIdx \in 1..secretLength |->
                      lagrangeInterpolate(
                        [k \in 1..Len(shares) |->
                           [x |-> shares[k].index,
                            y |-> shares[k].data[byteIdx]]])]]

\* Buffer.toString('hex') and Buffer.from(hex, 'hex'): two digits a byte.
toHex(data) ==
  [d \in 1..(2 * Len(data)) |->
     IF d % 2 = 1 THEN data[(d + 1) \div 2] \div 16 ELSE data[d \div 2] % 16]
fromHex(hex) ==
  [b \in 1..(Len(hex) \div 2) |-> 16 * hex[2 * b - 1] + hex[2 * b]]

\* splitKeyToShares: the shares as ShamirShare objects (shareData in hex).
splitKeyToShares(shares) ==
  [k \in 1..Len(shares) |->
     [index |-> shares[k].index, shareData |-> toHex(shares[k].data)]]

\* SoftHsmProvider.reconstructKeyFromShares: the key length is taken from
\* the first share; shares[0] of an empty array is undefined (TypeError).
reconstructKeyFromShares(shamirShares) ==
  IF shamirShares = <<>>
  THEN [error |-> "TypeError", secret |-> <<>>]
  ELSE LET shares == [k \in 1..Len(shamirShares) |->
                        [index |-> shamirShares[k].index,
                         data |-> fromHex(shamirShares[k].shareData)]]
       IN reconstructSecret(shares, Len(shares[1].data))

\* The secrets, split arguments, random bytes and share selections tried.
SecretBytes == {0, 1, 255}
Secrets == UNION {[1..n -> SecretBytes] : n \in 0..MaxSecretLength}
SplitArguments ==
  [threshold : 1..MaxTotalShares,
   totalShares : 1..MaxTotalShares \cup {MaxShares + 1}]
RandomCoeffs(secretLength, threshold) ==
  [1..secretLength -> [1..(threshold - 1) -> SecretBytes]]
ShareSelections(totalShares) ==
  UNION {[1..n -> 1..totalShares] : n \in 0..totalShares}

SssIdle == [pc |-> "idle", secret |-> <<>>, threshold |-> 0, totalShares |-> 0,
            shares |-> <<>>, given |-> <<>>,
            result |-> [error |-> "none", secret |-> <<>>]]

\* ------------------------------------------------------------ AES-256-GCM
\* A JavaScript string is a sequence of UTF-16 code units.
IsHighSurrogate(u) == u >= 55296 /\ u <= 56319
IsLowSurrogate(u) == u >= 56320 /\ u <= 57343

\* The UTF-8 bytes of one code point.
utf8Bytes(cp) ==
  IF cp < 128 THEN <<cp>>
  ELSE IF cp < 2048 THEN <<192 + (cp \div 64), 128 + (cp % 64)>>
  ELSE IF cp < 65536
  THEN <<224 + (cp \div 4096), 128 + ((cp \div 64) % 64), 128 + (cp % 64)>>
  ELSE <<240 + (cp \div 262144), 128 + ((cp \div 4096) % 64),
         128 + ((cp \div 64) % 64), 128 + (cp % 64)>>

\* Buffer.from(string, 'utf-8'): a surrogate pair is one code point, an
\* unpaired surrogate is encoded as U+FFFD.
RECURSIVE utf8Encode(_)
utf8Encode(units) ==
  IF units = <<>> THEN <<>>
  ELSE LET u == Head(units)
       IN IF /\ IsHighSurrogate(u)
             /\ Len(units) >= 2
             /\ IsLowSurrogate(units[2])
          THEN utf8Bytes(65536 + (u - 55296) * 1024 + (units[2] - 56320))
               \o utf8Encode(Tail(Tail(units)))
          ELSE IF IsHighSurrogate(u) \/ IsLowSurrogate(u)
          THEN utf8Bytes(65533) \o utf8Encode(Tail(units))
          ELSE utf8Bytes(u) \o utf8Encode(Tail(units))

\* The code units of one decoded code point.
utf16Units(cp) ==
  IF cp < 65536 THEN <<cp>>
  ELSE <<55296 + ((cp - 65536) \div 1024), 56320 + ((cp - 65536) % 1024)>>

\* buffer.toString('utf-8'): a sequence that is cut short decodes to U+FFFD.
RECURSIVE toStringUtf8(_)
toStringUtf8(bytes) ==
  IF bytes = <<>> THEN <<>>
  ELSE LET b == Head(bytes)
           n == IF b < 128 THEN 1 ELSE IF b < 224 THEN 2
                ELSE IF b < 240 THEN 3 ELSE 4
       IN IF b >= 128 /\ (b < 192 \/ Len(bytes) < n)
          THEN <<65533>> \o toStringUtf8(Tail(bytes))
          ELSE LET cp == IF n = 1 THEN b
                         ELSE IF n = 2 THEN (b - 192) * 64 + (bytes[2] - 128)
                         ELSE IF n = 3
                         THEN (b - 224) * 4096 + (bytes[2] - 128) * 64
                              + (bytes[3] - 128)
                         ELSE (b - 240) * 262144 + (bytes[2] - 128) * 4096
                              + (bytes[3] - 128) * 64 + (bytes[4] - 128)
               IN utf16Units(cp) \o toStringUtf8(SubSeq(bytes, n + 1, Len(bytes)))

\* buffer.toString('base64'): four sextets for three bytes, 64 standing
\* for the padding character.
RECURSIVE toBase64(_)
toBase64(bytes) ==
  IF bytes = <<>> THEN <<>>
  ELSE LET k == IF Len(bytes) >= 3 THEN 3 ELSE Len(bytes)
           n == bytes[1] * 65536
                + (IF k >= 2 THEN bytes[2] * 256 ELSE 0)
                + (IF k >= 3 THEN bytes[3] ELSE 0)
       IN <<n \div 262144, (n \div 4096) % 64,
            IF k >= 2 THEN (n \div 64) % 64 ELSE 64,
            IF k >= 3 THEN n % 64 ELSE 64>>
          \o toBase64(SubSeq(bytes, k + 1, Len(bytes)))

\* Buffer.from(string, 'base64').
RECURSIVE fromBase64(_)
fromBase64(text) ==
  IF Len(text) < 4 THEN <<>>
  ELSE LET k == IF text[3] = 64 THEN 1 ELSE IF text[4] = 64 THEN 2 ELSE 3
           n == text[1] * 262144 + text[2] * 4096
                + (IF k >= 2 THEN text[3] * 64 ELSE 0)
                + (IF k >= 3 THEN text[4] ELSE 0)
       IN SubSeq(<<n \div 65536, (n \div 256) % 256, n % 256>>, 1, k)
          \o fromBase64(SubSeq(text, 5, Len(text)))

RECURSIVE SumBytes(_)
SumBytes(bytes) == IF bytes = <<>> THEN 0 ELSE Head(bytes) + SumBytes(Tail(bytes))

\* The cipher of createCipheriv('aes-256-gcm', key, iv): a keystream that
\* depends on key, iv and position, and a tag over key, iv, AAD and
\* ciphertext.  The cipher itself is Node's and is not part of the program.
Keystream(key, iv, i) == (key.material * 31 + SumBytes(iv) * 17 + i * 7) % 256
GcmCrypt(key, iv, bytes) ==
  [i \in 1..Len(bytes) |-> BitXor(bytes[i], Keystream(key, iv, i), 8)]
GcmTag(key, iv, aad, ciphertext) ==
  [i \in 1..AUTH_TAG_LENGTH |->
     (key.material * 13 + SumBytes(iv) * 5 + SumBytes(aad) * 3
      + SumBytes(ciphertext) + Len(ciphertext) * 11 + i) % 256]

\* The code units of a content set identifier.
IdentifierUnits(cs) == IF cs = "A" THEN <<65>> ELSE <<66>>

\* encryptContentSet: the error it throws or the envelope it returns, for
\* the IV that randomBytes(IV_LENGTH) produced.
encryptContentSet(plaintext, key, keyId, contentSetIdentifier, iv) ==
  IF key.length # KeyLength
  THEN [error |-> "AES-256 requires a 32-byte key"]
  ELSE LET aad == utf8Encode(IdentifierUnits(contentSetIdentifier))
           encrypted == GcmCrypt(key, iv, utf8Encode(plaintext))
       IN [error |-> "none",
           contentSetIdentifier |-> contentSetIdentifier,
           iv |-> toBase64(iv),
           authTag |-> toBase64(GcmTag(key, iv, aad, encrypted)),
           ciphertext |-> toBase64(encrypted),
           plaintextHash |-> sha512(utf8Encode(plaintext)),
           ciphertextHash |-> sha512(encrypted),
           keyId |-> keyId]

\* decryptContentSet on an envelope whose decrypted bytes decode to
\* plaintext: the error thrown or the DecryptedContentSet returned.
verifyDecrypted(envelope, key, plaintext) ==
  IF key.length # KeyLength
  THEN [error |-> "AES-256 requires a 32-byte key", plaintext |-> <<>>,
        verified |-> FALSE]
  ELSE LET iv == fromBase64(envelope.iv)
           authTag == fromBase64(envelope.authTag)
           ciphertext == fromBase64(envelope.ciphertext)
           aad == utf8Encode(IdentifierUnits(envelope.contentSetIdentifier))
           verified == sha512(utf8Encode(plaintext)) = envelope.plaintextHash
       IN IF sha512(ciphertext) # envelope.ciphertextHash
          THEN [error |-> "Ciphertext integrity failure", plaintext |-> <<>>,
                verified |-> FALSE]
          ELSE IF GcmTag(key, iv, aad, ciphertext) # authTag
          THEN [error |-> "GCM authentication failure", plaintext |-> <<>>,
                verified |-> FALSE]
          ELSE IF ~verified
          THEN [error |-> "Plaintext integrity failure", plaintext |-> <<>>,
                verified |-> FALSE]
          ELSE [error |-> "none", plaintext |-> plaintext,
                verified |-> verified]

\* Decryption that decodes the plaintext as latin1, one code unit a byte.
decryptEnvelopeLatin1(envelope, key) ==
  verifyDecrypted(envelope, key,
                  GcmCrypt(key, fromBase64(envelope.iv),
                           fromBase64(envelope.ciphertext)))

\* decryptContentSet(envelope, key).
decryptEnvelope(envelope, key) ==
  verifyDecrypted(envelope, key,
                  toStringUtf8(GcmCrypt(key, fromBase64(envelope.iv),
                                        fromBase64(envelope.ciphertext))))

\* The plaintexts tried: text over a, e-acute, the euro sign and one
\* character outside the basic plane (a surrogate pair), as the payloads
\* deconstruction builds with JSON.stringify and the text rotation decodes.
PlaintextUnits == {97, 233, 8364, 55357, 56832}
WellFormed(units) ==
  \A i \in 1..Len(units) :
     /\ IsHighSurrogate(units[i]) =>
          (i < Len(units) /\ IsLowSurrogate(units[i + 1]))
     /\ IsLowSurrogate(units[i]) => (i > 1 /\ IsHighSurrogate(units[i - 1]))
Plaintexts ==
  {t \in UNION {[1..n -> PlaintextUnits] : n \in 0..MaxPlaintextLength} :
     WellFormed(t)}
KeyBuffers == [material : {1, 2}, length : {KeyLength}]
               \cup {[material |-> 1, length |-> 16]}
InitializationVectors == {[i \in 1..IV_LENGTH |-> v] : v \in {0, 255}}

AesIdle == [pc |-> "idle", plaintext |-> <<>>, key |-> 0, cs |-> "A", iv |-> <<>>,
            envelope |-> [error |-> "none"], decKey |-> 0,
            result |-> [error |-> "none", plaintext |-> <<>>,
                        verified |-> FALSE]]

\* ------------------------------------------------------ markup operations

\* markup_operation_type
MarkupOperationTypes == {"assign", "unassign", "bulk_assign", "bulk_unassign"}

\* A session as createMarkupSession inserts it: operation_count and
\* undo_position default to 0, no operations, no assignments.  An
\* operation's id is its sequence number (UNIQUE(session_id,
\* sequence_number)); a selection is a whole block (NULL offsets).
\* truncated records the sequence numbers the truncation branch of
\* executeOperation has selected.
NewSession ==
  [operations |-> <<>>, content_set_assignments |-> {}, operation_count |-> 0,
   undo_position |-> 0, truncated |-> {}]

AssignmentRow(contentSetIdentifier, blockId, operationId) ==
  [content_set_identifier |-> contentSetIdentifier, block_id |-> blockId,
   created_by_operation_id |-> operationId]

\* UPDATE markup_operations SET is_undone = $2 WHERE sequence_number = $1
SetUndone(operations, sequenceNumber, isUndone) ==
  [i \in 1..Len(operations) |->
     IF i = sequenceNumber THEN [operations[i] EXCEPT !.is_undone = isUndone]
                           ELSE operations[i]]

\* The truncation branch: operations after undo_position are marked undone
\* and the assignments they created are deleted; they keep their rows and
\* sequence numbers.
TruncateRedoStack(s) ==
  IF s.undo_position < s.operation_count
  THEN [s EXCEPT
          !.operations = [i \in 1..Len(@) |->
                            IF i > s.undo_position
                            THEN [@[i] EXCEPT !.is_undone = TRUE] ELSE @[i]],
          !.content_set_assignments =
             {a \in @ : a.created_by_operation_id <= s.undo_position},
          !.truncated = @ \cup (s.undo_position + 1 .. s.operation_count)]
  ELSE s

executeOperation(s, type, contentSetIdentifier, blockId) ==
  LET newSequence == s.operation_count + 1
      t == TruncateRedoStack(s)
  IN [t EXCEPT
        !.operations = Append(@, [type |-> type,
                                  content_set_identifier |-> contentSetIdentifier,
                                  block_id |-> blockId, is_undone |-> FALSE]),
        !.content_set_assignments =
           IF type \in {"assign", "bulk_assign"}
           THEN @ \cup {AssignmentRow(contentSetIdentifier, blockId, newSequence)}
           ELSE {a \in @ : ~(/\ a.content_set_identifier = contentSetIdentifier
                              /\ a.block_id = blockId)},
        !.operation_count = newSequence,
        !.undo_position = newSequence]

undoOperation(s) ==
  LET pos == s.undo_position
      op == s.operations[pos]
  IN IF pos = 0
     THEN s
     ELSE [s EXCEPT
             !.operations = SetUndone(@, pos, TRUE),
             !.content_set_assignments =
                IF op.type \in {"assign", "bulk_assign"}
                THEN {a \in @ : a.created_by_operation_id # pos}
                ELSE @ \cup {AssignmentRow(op.content_set_identifier,
                                            op.block_id, pos)},
             !.undo_position = pos - 1]

redoOperation(s) ==
  LET nextSeq == s.undo_position + 1
      op == s.operations[nextSeq]
  IN IF nextSeq > s.operation_count
     THEN s
     ELSE [s EXCEPT
             !.operations = SetUndone(@, nextSeq, FALSE),
             !.content_set_assignments =
                IF op.type \in {"assign", "bulk_assign"}
                THEN @ \cup {AssignmentRow(op.content_set_identifier,
                                            op.block_id, nextSeq)}
                ELSE {a \in @ : a.created_by_operation_id # nextSeq},
             !.undo_position = nextSeq]

\* ------------------------------------------------------------------- state
VARIABLES
  docStatus,    \* documents.status as committed
  txStatus,     \* documents.status as written inside the open transaction
                \* of the row-lock holder ("none" when no such write)
  docLock,      \* holder of the FOR UPDATE lock on the documents row
  session,      \* markup_sessions.status of the document's session
  escalated,    \* a markup_reviews row with decision = 'escalate' exists
  assignments,  \* content_set_assignments of the document's session
  keys,         \* encryption_keys rows (committed)
  hsm,          \* SoftHsmProvider.keyStore: handles holding key material
  nextKey,      \* next fresh key id (uuidv4 in generateKey)
  ecs,          \* encrypted_content_sets rows (committed), per identifier
  base,         \* a base_documents row exists (committed)
  shares,       \* key ids that own key_shares rows (committed)
  dec,          \* the executeDeconstruction task
  rot,          \* the key-rotation route tasks
  rec,          \* the reconstructDocument task
  des,          \* the executeDestruction task
  legalHold,    \* documents.legal_hold (committed)
  stored,       \* the assignments the stored markers and payloads were built from
  tamper,       \* what was altered in storage behind the application's back
  auditDestroyed, \* the audit trail holds a document.destroyed event
  sink,         \* what the anchor sink (FORAY API) answers to a submission
  unanchored,   \* transaction types logged locally for a later commit
  marker_width, \* security_profiles.marker_width of the tenant (0: no row)
  key_split, \* security_profiles.key_split_m, key_split_n of the tenant
  sss, \* a splitSecret / reconstructSecret computation on one secret
  aes, \* an encryptContentSet / decryptContentSet computation on one plaintext
  audit_store, \* whether an INSERT into audit_trail succeeds
  markup  \* one markup session: its operations, assignments and counters

vars == <<docStatus, txStatus, docLock, session, escalated, assignments, keys,
          hsm, nextKey, ecs, base, shares, dec, rot, rec, des, legalHold,
          stored, tamper, auditDestroyed, sink, unanchored, marker_width,
          key_split,
          sss,
          aes,
          audit_store,
          markup>>

NoRow == [rowId |-> 0, keyId |-> 0]

\* Alterations of a stored envelope, and storage as the application wrote it.
TamperKinds == {"none", "ciphertext", "authTag", "plaintextHash"}
NoTamper == [base |-> FALSE, sets |-> [s \in Sets |-> "none"]]

DecIdle == [pc |-> "idle", sessionId |-> "none", rows |-> <<>>, todo |-> <<>>,
            made |-> <<>>]
RotIdle == [pc |-> "idle", snap |-> <<>>, cur |-> 0, pend |-> <<>>,
            keyMaterial |-> {}]
RecIdle == [pc |-> "idle", rows |-> <<>>, auth |-> {}, todo |-> <<>>, env |-> 0,
            cond |-> "none", key |-> 0, found |-> {}, ok |-> {}, audit |-> {},
            error |-> "none", view |-> <<>>, event |-> FALSE,
            integrityAllPassed |-> FALSE, markerWidth |-> 0,
            contentSetsUsed |-> {}]
DesIdle == [pc |-> "idle", regulatoryClearance |-> FALSE, retentionMet |-> FALSE,
            handlesDestroyed |-> {}]

Init ==
  /\ docStatus = "intake"
  /\ txStatus = "none"
  /\ docLock = "none"
  /\ session = "none"
  /\ escalated = FALSE
  /\ assignments = AssignmentChoices["S1"]
  /\ keys = {}
  /\ hsm = {}
  /\ nextKey = 1
  /\ ecs = [s \in Sets |-> NoRow]
  /\ base = FALSE
  /\ shares = {}
  /\ dec = DecIdle
  /\ rot = [r \in Rotators |-> RotIdle]
  /\ rec = RecIdle
  /\ des = DesIdle
  /\ legalHold = FALSE
  /\ stored = <<>>
  /\ tamper = NoTamper
  /\ auditDestroyed = FALSE
  /\ sink = "ok"
  /\ unanchored = {}
  /\ marker_width = DefaultMarkerWidth
  /\ key_split = DefaultKeySplit
  /\ sss = SssIdle
  /\ aes = AesIdle
  /\ audit_store = "ok"
  /\ markup = NewSession

\* The status value last written to the row (a transaction's own write
\* until it commits or rolls back, the committed value otherwise).
EffStatus == IF txStatus # "none" THEN txStatus ELSE docStatus

\* The anchor sink accepts the submission, answers with an error status,
\* or cannot be reached (network error or the 5 s abort).
SinkOutcomes == {"ok", "error", "unreachable"}

\* A submission that throws when the sink does not accept it.
submitForayThrowing(answer) ==
  [threw |-> answer # "ok", forayTxId |-> "remote"]

\* submitForayTransaction: the sink's transaction id when the response is
\* ok; otherwise a warning, the transaction logged locally and the stub id
\* FORAY_LOCAL_... returned.  It never throws.
submitForayTransaction(answer) ==
  [threw |-> FALSE, forayTxId |-> IF answer = "ok" THEN "remote" ELSE "local"]

\* The local log after a submission of the given transaction type.
\* recordAuditEvent: the INSERT into audit_trail on the pool; a failed
\* statement rejects the awaited promise.
AuditStoreOutcomes == {"ok", "error"}
recordAuditEvent(answer) == [threw |-> answer # "ok"]

LoggedLocally(transactionType) ==
  IF submitForayTransaction(sink).forayTxId = "local"
  THEN unanchored \cup {transactionType}
  ELSE unanchored

KeyRow(id) == CHOOSE k \in keys : k.id = id
HasKeyRow(id) == \E k \in keys : k.id = id
ActiveKeys(cs) == {k \in keys : k.cs = cs /\ k.active}

\* Rows a rotation has written and therefore holds locked until it ends.
LockedKeyRows(r) == {rot[r].pend[i].old : i \in 1..Len(rot[r].pend)}
LockedEcsRows(r) == {rot[r].pend[i].rowId : i \in 1..Len(rot[r].pend)} \ {0}
\* An INSERT into encryption_keys holds FOR KEY SHARE on the documents row.
HoldsKeyShare(r) == rot[r].pend # <<>>

\* Key ids still to be generated by the tasks in flight.
Reserved ==
  Len(dec.todo) + Len(rot[1].snap) + Len(rot[2].snap)
  - (IF rot[1].pc = "write" THEN 1 ELSE 0) - (IF rot[2].pc = "write" THEN 1 ELSE 0)

\* ------------------------------------------------ intake, markup and review
\* executeIntakePipeline, step 6: the scan decides intake_flagged or intake_cleared.
executeIntakePipeline(needsReview) ==
  /\ docStatus = "intake"
  /\ docLock = "none"
  /\ docStatus' = IF needsReview THEN "intake_flagged" ELSE "intake_cleared"
  /\ UNCHANGED <<markup, audit_store, aes, sss, key_split, sink, unanchored, marker_width, auditDestroyed, tamper,
                 legalHold, stored, txStatus, docLock, session, escalated,
                 assignments, keys, hsm, nextKey, ecs, base, shares, dec, rot,
                 rec, des>>

resolveIntakeFlag(disposition) ==
  /\ docStatus = "intake_flagged"
  /\ docLock = "none"
  /\ docStatus' = IF disposition = "reject" THEN "destroyed" ELSE "intake_cleared"
  /\ UNCHANGED <<markup, audit_store, aes, sss, key_split, sink, unanchored, marker_width, auditDestroyed, tamper,
                 legalHold, stored, txStatus, docLock, session, escalated,
                 assignments, keys, hsm, nextKey, ecs, base, shares, dec, rot,
                 rec, des>>

createMarkupSession ==
  /\ docStatus \in {"intake_cleared", "markup", "review_escalated"}
  /\ session = "none"
  /\ docLock = "none"
  /\ session' = "active"
  /\ docStatus' = IF docStatus = "intake_cleared" THEN "markup" ELSE docStatus
  /\ UNCHANGED <<markup, audit_store, aes, sss, key_split, sink, unanchored, marker_width, auditDestroyed, tamper,
                 legalHold, stored, txStatus, docLock, escalated, assignments,
                 keys, hsm, nextKey, ecs, base, shares, dec, rot, rec, des>>

submitForReview ==
  /\ session \in {"active", "revision"}
  /\ docLock = "none"
  /\ \A r \in Rotators : ~HoldsKeyShare(r)
  /\ session' = "submitted"
  /\ docStatus' = "markup_submitted"
  /\ UNCHANGED <<markup, audit_store, aes, sss, key_split, sink, unanchored, marker_width, auditDestroyed, tamper,
                 legalHold, stored, txStatus, docLock, escalated, assignments,
                 keys, hsm, nextKey, ecs, base, shares, dec, rot, rec, des>>

\* SELECT ... JOIN documents ... FOR UPDATE locks the documents row as well.
recordReviewDecision(decision) ==
  /\ session \in {"submitted", "approved"}
  /\ docLock = "none"
  /\ \A r \in Rotators : ~HoldsKeyShare(r)
  /\ session' = CASE decision = "approve" -> "approved"
                  [] decision = "reject" -> "revision"
                  [] OTHER -> "submitted"
  /\ docStatus' = CASE decision = "approve" -> "approved"
                    [] decision = "reject" -> "markup"
                    [] OTHER -> "review_escalated"
  /\ escalated' = (escalated \/ decision = "escalate")
  /\ UNCHANGED <<markup, audit_store, aes, sss, key_split, sink, unanchored, marker_width, auditDestroyed, tamper,
                 legalHold, stored, txStatus, docLock, assignments, keys, hsm,
                 nextKey, ecs, base, shares, dec, rot, rec, des>>

resolveEscalation(decision) ==
  /\ escalated
  /\ docLock = "none"
  /\ \A r \in Rotators : ~HoldsKeyShare(r)
  /\ session' = IF decision = "approve" THEN "approved" ELSE "revision"
  /\ docStatus' = IF decision = "approve" THEN "approved" ELSE "markup"
  /\ UNCHANGED <<markup, audit_store, aes, sss, key_split, sink, unanchored, marker_width, auditDestroyed, tamper,
                 legalHold, stored, txStatus, docLock, escalated, assignments,
                 keys, hsm, nextKey, ecs, base, shares, dec, rot, rec, des>>


\* --------------------------------------------------- executeDeconstruction
NewKeyRecord(id, cs, from, config) ==
  [id |-> id, cs |-> cs, active |-> TRUE, from |-> from, destroyed |-> FALSE,
   shamir_threshold |-> config.threshold,
   shamir_total_shares |-> config.totalShares]

\* saveKeyRecord(record) without a queryClient: db = pool, so the INSERT is
\* its own autocommitted statement on another connection.
saveKeyRecord(record) == keys \cup {record}

\* A status reset without its WHERE status = 'deconstructing' condition.
ResetUnconditionally(st) == "approved"

\* The catch block's status reset, a pool statement on committed state.
ResetStatus(st) == IF st = "deconstructing" THEN "approved" ELSE st

\* BEGIN; SELECT ... WHERE status = 'approved' FOR UPDATE; no row: throw.
executeDeconstruction_Reject ==
  /\ dec.pc = "idle"
  /\ docStatus # "approved"
  /\ docStatus' = ResetStatus(docStatus)
  /\ UNCHANGED <<markup, audit_store, aes, sss, key_split, sink, unanchored, marker_width, auditDestroyed, tamper,
                 legalHold, stored, txStatus, docLock, session, escalated,
                 assignments, keys, hsm, nextKey, ecs, base, shares, dec, rot,
                 rec, des>>

\* markup_sessions.status of the named session.
SessionStatus(sessionId) == IF sessionId = "S1" THEN session ELSE "active"

\* SELECT ... FROM content_set_assignments WHERE session_id = $1
SessionAssignments(sessionId) ==
  IF sessionId = "S1" THEN assignments ELSE AssignmentChoices[sessionId]

\* Row found and locked; UPDATE status = 'deconstructing'; assignments read.
executeDeconstruction_Begin(sessionId) ==
  /\ dec.pc = "idle"
  /\ docStatus = "approved"
  /\ docLock = "none"
  /\ \A r \in Rotators : ~HoldsKeyShare(r)
  /\ LET rows == SessionAssignments(sessionId)
     IN /\ contentSets(rows) # <<>>
        /\ nextKey - 1 + Reserved + Len(contentSets(rows)) <= MaxKeys
        /\ dec' = [pc |-> "keys", sessionId |-> sessionId, rows |-> rows,
                   todo |-> contentSets(rows), made |-> <<>>]
  /\ docLock' = "decon"
  /\ txStatus' = "deconstructing"
  /\ UNCHANGED <<markup, audit_store, aes, sss, key_split, sink, unanchored, marker_width, auditDestroyed, tamper,
                 legalHold, stored, docStatus, session, escalated, assignments,
                 keys, hsm, nextKey, ecs, base, shares, rot, rec, des>>

\* One iteration of the per-content-set loop: generateKey, encrypt,
\* saveKeyRecord, splitKeyToShares, INSERT key_shares (in the transaction).
executeDeconstruction_Key ==
  /\ dec.pc = "keys"
  /\ splitSecretError(shamirConfig(key_split).threshold,
                      shamirConfig(key_split).totalShares, KeyLength) = "none"
  /\ LET setId == Head(dec.todo)
         keyId == nextKey
     IN /\ hsm' = hsm \cup {keyId}
        /\ nextKey' = nextKey + 1
        /\ keys' = saveKeyRecord(NewKeyRecord(keyId, setId, 0,
                                              shamirConfig(key_split)))
        /\ dec' = [dec EXCEPT !.todo = Tail(@),
                              !.made = Append(@, [cs |-> setId, key |-> keyId]),
                              !.pc = IF Tail(dec.todo) = <<>> THEN "store" ELSE "keys"]
  /\ UNCHANGED <<markup, audit_store, aes, sss, key_split, sink, unanchored, marker_width, auditDestroyed, tamper,
                 legalHold, stored, docStatus, txStatus, docLock, session,
                 escalated, assignments, ecs, base, shares, rot, rec, des>>

\* The same iteration when the pool connection's INSERT into encryption_keys
\* waits for the key-share lock its foreign key needs on the documents row:
\* that row is held FOR UPDATE by this task's own open transaction, which
\* is awaiting the INSERT.
executeDeconstruction_KeyWait ==
  /\ dec.pc = "keys"
  /\ hsm' = hsm \cup {nextKey}
  /\ nextKey' = nextKey + 1
  /\ dec' = [dec EXCEPT !.todo = Tail(@), !.pc = "blocked"]
  /\ UNCHANGED <<markup, audit_store, aes, sss, key_split, sink, unanchored, marker_width, auditDestroyed, tamper,
                 legalHold, stored, docStatus, txStatus, docLock, session,
                 escalated, assignments, keys, ecs, base, shares, rot, rec,
                 des>>

\* The first iteration when splitKeyToShares throws on the profile's key
\* split: generateKey and saveKeyRecord have run, splitSecret rejects its
\* arguments, and the catch block rolls back and resets the status.
executeDeconstruction_SplitFail ==
  /\ dec.pc = "keys"
  /\ splitSecretError(shamirConfig(key_split).threshold,
                      shamirConfig(key_split).totalShares, KeyLength) # "none"
  /\ hsm' = hsm \cup {nextKey}
  /\ nextKey' = nextKey + 1
  /\ keys' = saveKeyRecord(NewKeyRecord(nextKey, Head(dec.todo), 0,
                                        shamirConfig(key_split)))
  /\ txStatus' = "none"
  /\ docLock' = "none"
  /\ docStatus' = ResetStatus(docStatus)
  /\ dec' = DecIdle
  /\ UNCHANGED <<markup, audit_store, aes, sss, key_split, sink, unanchored, marker_width, auditDestroyed,
                 tamper, legalHold, stored, session, escalated, assignments,
                 ecs, base, shares, rot, rec, des>>

\* INSERT encrypted_content_sets (UNIQUE document, identifier), INSERT
\* base_documents (UNIQUE document), UPDATE status = 'active', COMMIT.
executeDeconstruction_Commit ==
  /\ dec.pc = "store"
  /\ ~base
  /\ \A i \in 1..Len(dec.made) : ecs[dec.made[i].cs].rowId = 0
  /\ ecs' = [s \in Sets |->
               IF \E i \in 1..Len(dec.made) : dec.made[i].cs = s
               THEN LET m == dec.made[CHOOSE i \in 1..Len(dec.made) : dec.made[i].cs = s]
                    IN [rowId |-> m.key, keyId |-> m.key]
               ELSE ecs[s]]
  /\ base' = TRUE
  /\ shares' = shares \cup {dec.made[i].key : i \in 1..Len(dec.made)}
  /\ docStatus' = "active"
  /\ txStatus' = "none"
  /\ docLock' = "none"
  /\ stored' = dec.rows
  /\ dec' = DecIdle
  /\ unanchored' = LoggedLocally("document_deconstruction")
  /\ UNCHANGED <<markup, audit_store, aes, sss, key_split, sink, marker_width, auditDestroyed, tamper,
                 legalHold, session, escalated, assignments, keys, hsm,
                 nextKey, rot, rec, des>>

\* Any throw after the lock was taken: ROLLBACK, then the status reset.
executeDeconstruction_Fail ==
  /\ dec.pc \in {"keys", "store"}
  /\ txStatus' = "none"
  /\ docLock' = "none"
  /\ docStatus' = ResetStatus(docStatus)
  /\ dec' = DecIdle
  /\ UNCHANGED <<markup, audit_store, aes, sss, key_split, sink, unanchored, marker_width, auditDestroyed, tamper,
                 legalHold, stored, session, escalated, assignments, keys, hsm,
                 nextKey, ecs, base, shares, rot, rec, des>>

\* ------------------------------------------ POST /keys/:documentId/rotate
\* SELECT ecs JOIN encryption_keys ek ON ek.id = ecs.key_id WHERE ek.is_active
RotationRows ==
  SelectSeq(SetOrder, LAMBDA s : /\ ecs[s].rowId # 0
                                 /\ HasKeyRow(ecs[s].keyId)
                                 /\ KeyRow(ecs[s].keyId).active)

rotate_NotFound(r) ==
  /\ rot[r].pc = "idle"
  /\ RotationRows = <<>>
  /\ UNCHANGED vars

rotate_Begin(r) ==
  /\ rot[r].pc = "idle"
  /\ RotationRows # <<>>
  /\ nextKey - 1 + Reserved + Len(RotationRows) <= MaxKeys
  /\ rot' = [rot EXCEPT ![r] =
       [pc |-> "fetch",
        snap |-> [i \in 1..Len(RotationRows) |->
                    [cs |-> RotationRows[i], rowId |-> ecs[RotationRows[i]].rowId,
                     old |-> ecs[RotationRows[i]].keyId,
                     shamir_threshold |->
                       KeyRow(ecs[RotationRows[i]].keyId).shamir_threshold,
                     shamir_total_shares |->
                       KeyRow(ecs[RotationRows[i]].keyId).shamir_total_shares]],
        cur |-> 0, pend |-> <<>>, keyMaterial |-> {}]]
  /\ UNCHANGED <<markup, audit_store, aes, sss, key_split, sink, unanchored, marker_width, auditDestroyed, tamper,
                 legalHold, stored, docStatus, txStatus, docLock, session,
                 escalated, assignments, keys, hsm, nextKey, ecs, base, shares,
                 dec, rec, des>>

\* getKeyMaterial(old handle), generateKey, getKeyMaterial(new), re-encrypt.
\* keyMaterial: the keys whose material the task holds in buffers (oldKey,
\* newKey) that have not been overwritten.
rotate_Fetch(r) ==
  /\ rot[r].pc = "fetch"
  /\ Head(rot[r].snap).old \in hsm
  /\ hsm' = hsm \cup {nextKey}
  /\ nextKey' = nextKey + 1
  /\ rot' = [rot EXCEPT ![r].cur = nextKey, ![r].pc = "write",
                        ![r].keyMaterial = {Head(rot[r].snap).old, nextKey}]
  /\ UNCHANGED <<markup, audit_store, aes, sss, key_split, sink, unanchored, marker_width, auditDestroyed, tamper,
                 legalHold, stored, docStatus, txStatus, docLock, session,
                 escalated, assignments, keys, ecs, base, shares, dec, rec,
                 des>>

\* UPDATE old key, INSERT new key, UPDATE encrypted_content_sets: each waits
\* for a row another open transaction has written.  The iteration ends
\* with oldKey.fill(0); newKey.fill(0).
rotate_Write(r) ==
  /\ rot[r].pc = "write"
  /\ docLock = "none"
  /\ LET row == Head(rot[r].snap)
     IN /\ \A o \in Rotators \ {r} :
              /\ row.old \notin LockedKeyRows(o)
              /\ row.rowId \notin LockedEcsRows(o)
        /\ rot' = [rot EXCEPT
             ![r].pend = Append(@, [cs |-> row.cs, rowId |-> row.rowId,
                                    old |-> row.old, new |-> rot[r].cur,
                                    shamir_threshold |-> row.shamir_threshold,
                                    shamir_total_shares |->
                                      row.shamir_total_shares]),
             ![r].snap = Tail(@),
             ![r].cur = 0,
             ![r].keyMaterial = {},
             ![r].pc = IF Tail(rot[r].snap) = <<>> THEN "commit" ELSE "fetch"]
  /\ UNCHANGED <<markup, audit_store, aes, sss, key_split, sink, unanchored, marker_width, auditDestroyed, tamper,
                 legalHold, stored, docStatus, txStatus, docLock, session,
                 escalated, assignments, keys, hsm, nextKey, ecs, base, shares,
                 dec, rec, des>>

Deactivated(rows, ids) ==
  {IF k.id \in ids THEN [k EXCEPT !.active = FALSE] ELSE k : k \in rows}

rotate_Commit(r) ==
  /\ rot[r].pc = "commit"
  /\ LET pend == rot[r].pend
         olds == {pend[i].old : i \in 1..Len(pend)}
     IN /\ keys' = Deactivated(keys, olds)
                   \cup {NewKeyRecord(pend[i].new, pend[i].cs, pend[i].old,
                                        [threshold |-> pend[i].shamir_threshold,
                                         totalShares |-> pend[i].shamir_total_shares]) :
                           i \in 1..Len(pend)}
        /\ ecs' = [s \in Sets |->
                     IF \E i \in 1..Len(pend) :
                          pend[i].cs = s /\ ecs[s].rowId = pend[i].rowId
                     THEN [rowId |-> ecs[s].rowId,
                           keyId |-> pend[CHOOSE i \in 1..Len(pend) : pend[i].cs = s].new]
                     ELSE ecs[s]]
  /\ rot' = [rot EXCEPT ![r] = RotIdle]
  /\ unanchored' = IF recordAuditEvent(audit_store).threw
                    THEN unanchored
                    ELSE LoggedLocally("key_rotation")
  /\ UNCHANGED <<markup, audit_store, aes, sss, key_split, sink, marker_width, auditDestroyed, tamper,
                 legalHold, stored, docStatus, txStatus, docLock, session,
                 escalated, assignments, hsm, nextKey, base, shares, dec, rec,
                 des>>

\* Any throw inside the try block (JSON.parse of the envelope column,
\* getKeyMaterial, a failed statement): ROLLBACK and a 500 response.  The
\* catch block overwrites no buffer; the task's record ends with the call.
rotate_Fail(r) ==
  /\ rot[r].pc \in {"fetch", "write", "commit"}
  /\ rot' = [rot EXCEPT ![r] = RotIdle]
  /\ UNCHANGED <<markup, audit_store, aes, sss, key_split, sink, unanchored, marker_width, auditDestroyed, tamper,
                 legalHold, stored, docStatus, txStatus, docLock, session,
                 escalated, assignments, keys, hsm, nextKey, ecs, base, shares,
                 dec, rec, des>>


\* ------------------------------------------------------ reconstructDocument
AuthSeq(auth) == SelectSeq(SetOrder, LAMBDA s : s \in auth)

\* base_documents.content as it is read back, and the content_hash that
\* deconstruction stored with it.
BaseContent == IF tamper.base THEN "base*" ELSE "base"
BaseContentHash == sha512("base")
baseDocVerified == sha512(BaseContent) = BaseContentHash

\* envelope.ciphertext as it is read back; the ciphertext_hash column and
\* envelope.ciphertextHash both hold the hash taken at encryption.
Ciphertext(cond) == IF cond = "ciphertext" THEN "ct*" ELSE "ct"
CiphertextHash == sha512("ct")

\* decryptContentSet without its three integrity checks.
decryptUnchecked(envKey, keyId, cond) == keyId = envKey

\* decryptContentSet(envelope, key) returns (does not throw) when the
\* ciphertext hash matches, GCM authenticates (the key that encrypted the
\* envelope, untouched IV and tag) and the plaintext hash matches.
decryptContentSet(envKey, keyId, cond) ==
  /\ sha512(Ciphertext(cond)) = CiphertextHash
  /\ keyId = envKey
  /\ cond # "authTag"
  /\ cond # "plaintextHash"

\* A flag that holds as soon as one authorized set verified.
someVerified(authorizedSets, decrypted) ==
  \E s \in authorizedSets : s \in decrypted

\* contentSetsVerified has an entry for every authorized set, true only
\* for a set that decryptContentSet returned for; allVerified is
\* Object.values(contentSetsVerified).every(v => v).
allVerified(authorizedSets, decrypted) ==
  LET contentSetsVerified == [s \in authorizedSets |-> s \in decrypted]
  IN \A s \in DOMAIN contentSetsVerified : contentSetsVerified[s]

\* content_sets_used of the reconstruction_events row and contentSetsUsed
\* of the returned view.
contentSetsUsed(authorizedSets, decrypted) == authorizedSets

\* Pool reads see committed rows only.
RecNext(r) ==
  [r EXCEPT !.todo = Tail(@), !.env = 0, !.cond = "none", !.key = 0,
            !.pc = IF Tail(r.todo) = <<>> THEN "assemble" ELSE "env"]

\* The call throws: nothing is returned; audit holds the events recorded.
RecFailed(error, audit) ==
  [RecIdle EXCEPT !.pc = "failed", !.error = error, !.audit = audit]

reconstructDocument_Denied ==
  /\ rec.pc = "idle"
  /\ UNCHANGED vars

\* authorize granted with authorizedSets = auth; base document loaded and
\* its hash compared.
reconstructDocument_Begin(auth) ==
  /\ rec.pc = "idle"
  /\ rec' = IF ~base THEN RecFailed("not_found", {})
            ELSE IF ~baseDocVerified
            THEN RecFailed("integrity", {<<"document", "base_document_hash">>})
            ELSE [RecIdle EXCEPT !.pc = IF auth = {} THEN "assemble" ELSE "env",
                                 !.rows = stored, !.auth = auth,
                                 !.todo = AuthSeq(auth)]
  /\ UNCHANGED <<markup, audit_store, aes, sss, key_split, sink, unanchored, marker_width, auditDestroyed, tamper,
                 legalHold, stored, docStatus, txStatus, docLock, session,
                 escalated, assignments, keys, hsm, nextKey, ecs, base, shares,
                 dec, rot, des>>

\* JSON.parse(baseDoc.markers): markers is a JSONB column, written from
\* JSON.stringify(markers).  When the driver hands the column back already
\* parsed, JSON.parse of the array throws before the base hash is compared.
reconstructDocument_ParseFail ==
  /\ rec.pc = "idle"
  /\ base
  /\ rec' = RecFailed("syntax", {})
  /\ UNCHANGED <<markup, audit_store, aes, sss, key_split, sink, unanchored, marker_width, auditDestroyed, tamper,
                 legalHold, stored, docStatus, txStatus, docLock, session,
                 escalated, assignments, keys, hsm, nextKey, ecs, base, shares,
                 dec, rot, des>>

\* SELECT encrypted_envelope, ciphertext_hash ... FROM encrypted_content_sets,
\* then the ciphertext hash is compared with the column.
reconstructDocument_Envelope ==
  /\ rec.pc = "env"
  /\ LET setId == Head(rec.todo)
         cond == tamper.sets[setId]
     IN rec' = IF ecs[setId].rowId = 0 THEN RecNext(rec)
               ELSE IF sha512(Ciphertext(cond)) # CiphertextHash
               THEN RecNext([rec EXCEPT !.found = @ \cup {setId},
                                        !.audit = @ \cup {<<setId, "ciphertext_hash">>}])
               ELSE [rec EXCEPT !.env = ecs[setId].keyId, !.cond = cond,
                                !.found = @ \cup {setId}, !.pc = "key"]
  /\ UNCHANGED <<markup, audit_store, aes, sss, key_split, sink, unanchored, marker_width, auditDestroyed, tamper,
                 legalHold, stored, docStatus, txStatus, docLock, session,
                 escalated, assignments, keys, hsm, nextKey, ecs, base, shares,
                 dec, rot, des>>

\* getActiveKeyRecord: rows[0] of the active records, in no stated order.
getActiveKeyRecord(cs) == {k.id : k \in ActiveKeys(cs)}

reconstructDocument_Key ==
  /\ rec.pc = "key"
  /\ LET setId == Head(rec.todo)
     IN IF getActiveKeyRecord(setId) = {}
        THEN rec' = RecNext(rec)
        ELSE \E k \in getActiveKeyRecord(setId) :
               rec' = [rec EXCEPT !.key = k, !.pc = "decrypt"]
  /\ UNCHANGED <<markup, audit_store, aes, sss, key_split, sink, unanchored, marker_width, auditDestroyed, tamper,
                 legalHold, stored, docStatus, txStatus, docLock, session,
                 escalated, assignments, keys, hsm, nextKey, ecs, base, shares,
                 dec, rot, des>>

\* hsm.getKeyMaterial(handle) throws for a destroyed handle (no audit
\* event); a throw of decryptContentSet is audited as decrypt_verify.
reconstructDocument_Decrypt ==
  /\ rec.pc = "decrypt"
  /\ LET setId == Head(rec.todo)
     IN rec' = IF rec.key \notin hsm THEN RecNext(rec)
               ELSE IF decryptContentSet(rec.env, rec.key, rec.cond)
               THEN RecNext([rec EXCEPT !.ok = @ \cup {setId}])
               ELSE RecNext([rec EXCEPT
                               !.audit = @ \cup {<<setId, "decrypt_verify">>}])
  /\ UNCHANGED <<markup, audit_store, aes, sss, key_split, sink, unanchored, marker_width, auditDestroyed, tamper,
                 legalHold, stored, docStatus, txStatus, docLock, session,
                 escalated, assignments, keys, hsm, nextKey, ecs, base, shares,
                 dec, rot, des>>

\* The view is assembled with the tenant's marker width, the
\* reconstruction_events row inserted, document.reconstructed audited and
\* the anchor transaction submitted last; then the view is returned.
reconstructDocument_Assemble ==
  /\ rec.pc = "assemble"
  /\ rec' = [rec EXCEPT
               !.pc = IF \/ recordAuditEvent(audit_store).threw
                         \/ submitForayTransaction(sink).threw
                      THEN "failed" ELSE "done",
               !.event = TRUE,
               !.contentSetsUsed = contentSetsUsed(rec.auth, rec.ok),
               !.integrityAllPassed = allVerified(rec.auth, rec.ok),
               !.markerWidth = ProfileMarkerWidth(marker_width),
               !.view = reconstructedBlocks(rec.rows, rec.auth, rec.ok,
                                            ProfileMarkerWidth(marker_width))]
  /\ unanchored' = IF recordAuditEvent(audit_store).threw
                    THEN unanchored
                    ELSE LoggedLocally("document_reconstruction")
  /\ UNCHANGED <<markup, audit_store, aes, sss, key_split, sink, marker_width, auditDestroyed, tamper,
                 legalHold, stored, docStatus, txStatus, docLock, session,
                 escalated, assignments, keys, hsm, nextKey, ecs, base, shares,
                 dec, rot, des>>

\* A reconstruction run in one instant against the committed state: the
\* key getActiveKeyRecord may return for a set (0: no envelope or no record).
KeyChoices(cs) ==
  IF ecs[cs].rowId = 0 \/ getActiveKeyRecord(cs) = {} THEN {0}
  ELSE getActiveKeyRecord(cs)

VerifiedWith(cs, k) ==
  /\ ecs[cs].rowId # 0
  /\ k \in hsm
  /\ decryptContentSet(ecs[cs].keyId, k, tamper.sets[cs])

\* The sets such a reconstruction can end up holding decrypted, and the
\* views it can return, for authorizedSets = auth.
OkOutcomes(auth) ==
  { {cs \in auth : VerifiedWith(cs, f[cs])} :
      f \in {g \in [Sets -> 0..MaxKeys] : \A cs \in Sets : g[cs] \in KeyChoices(cs)} }

ViewOutcomes(auth) ==
  {reconstructedBlocks(stored, auth, ok, ProfileMarkerWidth(marker_width)) :
     ok \in OkOutcomes(auth)}

\* The view is returned, or the error thrown, to the caller; the task ends.
reconstructDocument_Return ==
  /\ rec.pc \in {"done", "failed"}
  /\ rec' = RecIdle
  /\ UNCHANGED <<markup, audit_store, aes, sss, key_split, sink, unanchored, marker_width, auditDestroyed, tamper,
                 legalHold, stored, docStatus, txStatus, docLock, session,
                 escalated, assignments, keys, hsm, nextKey, ecs, base, shares,
                 dec, rot, des>>

\* -------------------------------------------------------- executeDestruction
\* POST /retention/:documentId/legal-hold: an autocommitted UPDATE of the
\* documents row, which waits for a transaction holding the row FOR UPDATE.
setLegalHold(hold) ==
  /\ docLock = "none"
  /\ legalHold' = hold
  /\ UNCHANGED <<markup, audit_store, aes, sss, key_split, sink, unanchored, marker_width, auditDestroyed, tamper, stored,
                 docStatus, txStatus, docLock, session, escalated, assignments,
                 keys, hsm, nextKey, ecs, base, shares, dec, rot, rec, des>>

\* getRetentionPolicy: created_at is day 0; a date is <<day>>, no date <<>>.
\* Each date is createdAt + days when days > 0; the effective date is the
\* later of the two (toISOString values of equal width order as the days).
getRetentionPolicy(regDays, orgDays) ==
  LET regulatoryFloorDate == IF regDays > 0 THEN <<regDays>> ELSE <<>>
      orgPolicyDate == IF orgDays > 0 THEN <<orgDays>> ELSE <<>>
  IN IF regulatoryFloorDate # <<>> /\ orgPolicyDate # <<>>
     THEN IF regDays > orgDays THEN regulatoryFloorDate ELSE orgPolicyDate
     ELSE IF regulatoryFloorDate # <<>> THEN regulatoryFloorDate ELSE orgPolicyDate

\* if (retention.effectiveRetentionDate) { if (retentionDate > new Date()) throw }
RetentionMet(effectiveRetentionDate, now) ==
  IF effectiveRetentionDate = <<>> THEN TRUE ELSE ~(effectiveRetentionDate[1] > now)

\* What the retention check can find, over policies of 0..MaxDays days
\* (0: none) and a clock reading of day 0..MaxDays.
RetentionOutcomes ==
  {RetentionMet(getRetentionPolicy(regDays, orgDays), now) :
     regDays \in 0..MaxDays, orgDays \in 0..MaxDays, now \in 0..MaxDays}

\* The same checks without the legal-hold test.
DestructionIgnoringHold(status, hold, regulatoryClearance, retentionMet) ==
  /\ status \notin {"destroyed", "destroying"}
  /\ regulatoryClearance
  /\ retentionMet

\* Steps 1 and 2 of executeDestruction on the row read FOR UPDATE.
DestructionAllowed(status, hold, regulatoryClearance, retentionMet) ==
  /\ status \notin {"destroyed", "destroying"}
  /\ ~hold
  /\ regulatoryClearance
  /\ retentionMet

\* SELECT ... FOR UPDATE (no status filter); already destroyed/destroying,
\* legal hold, missing clearance or unmet retention: throw, ROLLBACK.
executeDestruction_Reject(regulatoryClearance, retentionMet) ==
  /\ des.pc = "idle"
  /\ docLock = "none"
  /\ \A r \in Rotators : ~HoldsKeyShare(r)
  /\ ~DestructionAllowed(docStatus, legalHold, regulatoryClearance, retentionMet)
  /\ UNCHANGED vars

\* All checks passed: UPDATE status = 'destroying'.
executeDestruction_Begin(regulatoryClearance, retentionMet) ==
  /\ des.pc = "idle"
  /\ docLock = "none"
  /\ \A r \in Rotators : ~HoldsKeyShare(r)
  /\ DestructionAllowed(docStatus, legalHold, regulatoryClearance, retentionMet)
  /\ des' = [pc |-> "delete", regulatoryClearance |-> regulatoryClearance,
             retentionMet |-> retentionMet, handlesDestroyed |-> {}]
  /\ docLock' = "destroy"
  /\ txStatus' = "destroying"
  /\ UNCHANGED <<markup, audit_store, aes, sss, key_split, sink, unanchored, marker_width, auditDestroyed, tamper,
                 legalHold, stored, docStatus, session, escalated, assignments,
                 keys, hsm, nextKey, ecs, base, shares, dec, rot, rec>>

\* DELETE content sets and base document, then per key row: hsm.destroyKey,
\* UPDATE is_active = false, DELETE key_shares.  Only destroyKey acts
\* outside the transaction; handlesDestroyed are the handles it removed.
executeDestruction_Delete ==
  /\ des.pc = "delete"
  /\ hsm' = hsm \ {k.id : k \in keys}
  /\ des' = [des EXCEPT !.pc = "commit",
                        !.handlesDestroyed = hsm \cap {k.id : k \in keys}]
  /\ UNCHANGED <<markup, audit_store, aes, sss, key_split, sink, unanchored, marker_width, auditDestroyed, tamper,
                 legalHold, stored, docStatus, txStatus, docLock, session,
                 escalated, assignments, keys, nextKey, ecs, base, shares, dec,
                 rot, rec>>

Destroyed(rows, ids) ==
  {IF k.id \in ids THEN [k EXCEPT !.active = FALSE, !.destroyed = TRUE] ELSE k :
     k \in rows}

\* UPDATE status = 'destroyed', COMMIT; then the anchor transaction is
\* submitted and, after it, document.destroyed is audited.
executeDestruction_Commit ==
  /\ des.pc = "commit"
  /\ ecs' = [s \in Sets |-> NoRow]
  /\ base' = FALSE
  /\ keys' = Destroyed(keys, {k.id : k \in keys})
  /\ shares' = {}
  /\ docStatus' = "destroyed"
  /\ txStatus' = "none"
  /\ docLock' = "none"
  /\ stored' = <<>>
  /\ auditDestroyed' = /\ ~submitForayTransaction(sink).threw
                        /\ ~recordAuditEvent(audit_store).threw
  /\ des' = DesIdle
  /\ unanchored' = LoggedLocally("document_destruction")
  /\ UNCHANGED <<markup, audit_store, aes, sss, key_split, sink, marker_width, tamper, legalHold, session,
                 escalated, assignments, hsm, nextKey, dec, rot, rec>>

executeDestruction_Fail ==
  /\ des.pc \in {"delete", "commit"}
  /\ txStatus' = "none"
  /\ docLock' = "none"
  /\ des' = DesIdle
  /\ UNCHANGED <<markup, audit_store, aes, sss, key_split, sink, unanchored, marker_width, auditDestroyed, tamper,
                 legalHold, stored, docStatus, session, escalated, assignments,
                 keys, hsm, nextKey, ecs, base, shares, dec, rot, rec>>

\* Key destruction that takes every key record of the document.
EveryKeyId(cs) == {k.id : k \in keys}

\* keyId = deleteResult.rows[0].key_id: the one key the deleted row named.
ReturnedKeyId(cs) == {ecs[cs].keyId}

\* DELETE the content set row RETURNING key_id; destroy that key.  The
\* function reads neither documents.legal_hold nor the retention policy.
destroyContentSet(cs) ==
  /\ ecs[cs].rowId # 0
  /\ des.pc # "commit"
  /\ \A r \in Rotators : /\ ecs[cs].rowId \notin LockedEcsRows(r)
                         /\ ecs[cs].keyId \notin LockedKeyRows(r)
  /\ ecs' = [ecs EXCEPT ![cs] = NoRow]
  /\ hsm' = hsm \ ReturnedKeyId(cs)
  /\ keys' = Destroyed(keys, ReturnedKeyId(cs))
  /\ shares' = shares \ ReturnedKeyId(cs)
  /\ unanchored' = LoggedLocally("partial_destruction")
  /\ UNCHANGED <<markup, audit_store, aes, sss, key_split, sink, marker_width, auditDestroyed, tamper,
                 legalHold, stored, docStatus, txStatus, docLock, session,
                 escalated, assignments, nextKey, base, dec, rot, rec, des>>

\* ---------------------------------------------------------- specification
Next ==
  \/ \E needsReview \in BOOLEAN : executeIntakePipeline(needsReview)
  \/ \E disposition \in {"proceed", "sanitize", "reject"} : resolveIntakeFlag(disposition)
  \/ createMarkupSession
  \/ submitForReview
  \/ \E decision \in {"approve", "reject", "escalate"} : recordReviewDecision(decision)
  \/ \E decision \in {"approve", "reject"} : resolveEscalation(decision)
  \/ executeDeconstruction_Reject
  \/ \E sessionId \in SessionIds : executeDeconstruction_Begin(sessionId)
  \/ executeDeconstruction_Key
  \/ executeDeconstruction_KeyWait
  \/ executeDeconstruction_Commit
  \/ executeDeconstruction_Fail
  \/ \E r \in Rotators : rotate_NotFound(r)
  \/ \E r \in Rotators : rotate_Begin(r)
  \/ \E r \in Rotators : rotate_Fetch(r)
  \/ \E r \in Rotators : rotate_Write(r)
  \/ \E r \in Rotators : rotate_Commit(r)
  \/ \E r \in Rotators : rotate_Fail(r)
  \/ reconstructDocument_Denied
  \/ \E auth \in SUBSET Sets : reconstructDocument_Begin(auth)
  \/ reconstructDocument_ParseFail
  \/ reconstructDocument_Envelope
  \/ reconstructDocument_Key
  \/ reconstructDocument_Decrypt
  \/ reconstructDocument_Assemble
  \/ reconstructDocument_Return
  \/ \E hold \in BOOLEAN : setLegalHold(hold)
  \/ \E regulatoryClearance \in BOOLEAN, retentionMet \in RetentionOutcomes :
       executeDestruction_Reject(regulatoryClearance, retentionMet)
  \/ \E regulatoryClearance \in BOOLEAN, retentionMet \in RetentionOutcomes :
       executeDestruction_Begin(regulatoryClearance, retentionMet)
  \/ executeDestruction_Delete
  \/ executeDestruction_Commit
  \/ executeDestruction_Fail
  \/ \E cs \in Sets : destroyContentSet(cs)

Spec == Init /\ [][Next]_vars


\* Reconstruction of a deconstructed document whose stored base document
\* and envelopes may have been altered in storage: the state after
\* deconstruction of the document's approved session, with any alteration.
Deconstructed ==
  /\ docStatus = "active"
  /\ txStatus = "none"
  /\ docLock = "none"
  /\ session = "approved"
  /\ escalated = FALSE
  /\ assignments = AssignmentChoices["S1"]
  /\ key_split = DefaultKeySplit
  /\ keys = {NewKeyRecord(1, "A", 0, shamirConfig(key_split)),
             NewKeyRecord(2, "B", 0, shamirConfig(key_split))}
  /\ hsm = {1, 2}
  /\ nextKey = 3
  /\ ecs = [s \in Sets |-> IF s = "A" THEN [rowId |-> 1, keyId |-> 1]
                                       ELSE [rowId |-> 2, keyId |-> 2]]
  /\ base = TRUE
  /\ shares = {1, 2}
  /\ dec = DecIdle
  /\ rot = [r \in Rotators |-> RotIdle]
  /\ rec = RecIdle
  /\ des = DesIdle
  /\ legalHold = FALSE
  /\ stored = AssignmentChoices["S1"]
  /\ auditDestroyed = FALSE
  /\ sink = "ok"
  /\ unanchored = {}
  /\ sss = SssIdle
  /\ aes = AesIdle
  /\ markup = NewSession
  /\ audit_store = "ok"

TamperInit ==
  /\ Deconstructed
  /\ marker_width \in ProfileWidths
  /\ tamper \in [base : BOOLEAN, sets : [Sets -> TamperKinds]]

TamperNext ==
  \/ reconstructDocument_Denied
  \/ \E auth \in SUBSET Sets : reconstructDocument_Begin(auth)
  \/ reconstructDocument_ParseFail
  \/ reconstructDocument_Envelope
  \/ reconstructDocument_Key
  \/ reconstructDocument_Decrypt
  \/ reconstructDocument_Assemble
  \/ reconstructDocument_Return

TamperSpec == TamperInit /\ [][TamperNext]_vars


\* Targeted destruction on a deconstructed, unaltered document, together
\* with everything that can run against the same rows: rotations,
\* reconstruction, legal hold and whole-document destruction.
ErasureInit ==
  /\ Deconstructed
  /\ marker_width = DefaultMarkerWidth
  /\ tamper = NoTamper

ErasureNext ==
  \/ \E cs \in Sets : destroyContentSet(cs)
  \/ \E r \in Rotators : rotate_NotFound(r)
  \/ \E r \in Rotators : rotate_Begin(r)
  \/ \E r \in Rotators : rotate_Fetch(r)
  \/ \E r \in Rotators : rotate_Write(r)
  \/ \E r \in Rotators : rotate_Commit(r)
  \/ \E r \in Rotators : rotate_Fail(r)
  \/ reconstructDocument_Denied
  \/ \E auth \in SUBSET Sets : reconstructDocument_Begin(auth)
  \/ reconstructDocument_ParseFail
  \/ reconstructDocument_Envelope
  \/ reconstructDocument_Key
  \/ reconstructDocument_Decrypt
  \/ reconstructDocument_Assemble
  \/ reconstructDocument_Return
  \/ \E hold \in BOOLEAN : setLegalHold(hold)
  \/ \E regulatoryClearance \in BOOLEAN, retentionMet \in RetentionOutcomes :
       executeDestruction_Reject(regulatoryClearance, retentionMet)
  \/ \E regulatoryClearance \in BOOLEAN, retentionMet \in RetentionOutcomes :
       executeDestruction_Begin(regulatoryClearance, retentionMet)
  \/ executeDestruction_Delete
  \/ executeDestruction_Commit
  \/ executeDestruction_Fail

ErasureSpec == ErasureInit /\ [][ErasureNext]_vars


\* A document whose markup was approved and that has not been deconstructed.
Approved ==
  /\ docStatus = "approved"
  /\ txStatus = "none"
  /\ docLock = "none"
  /\ session = "approved"
  /\ escalated = FALSE
  /\ keys = {}
  /\ hsm = {}
  /\ nextKey = 1
  /\ ecs = [s \in Sets |-> NoRow]
  /\ base = FALSE
  /\ shares = {}
  /\ dec = DecIdle
  /\ rot = [r \in Rotators |-> RotIdle]
  /\ rec = RecIdle
  /\ des = DesIdle
  /\ legalHold = FALSE
  /\ stored = <<>>
  /\ tamper = NoTamper
  /\ auditDestroyed = FALSE
  /\ unanchored = {}
  /\ marker_width = DefaultMarkerWidth

\* The core operations on an approved document while the anchor sink
\* accepts submissions, answers with an error, or cannot be reached.
AnchorInit ==
  /\ Approved
  /\ sss = SssIdle
  /\ aes = AesIdle
  /\ markup = NewSession
  /\ audit_store = "ok"
  /\ assignments = AssignmentChoices["S1"]
  /\ key_split = DefaultKeySplit
  /\ sink \in SinkOutcomes

AnchorNext ==
  \/ \E sessionId \in SessionIds : executeDeconstruction_Begin(sessionId)
  \/ executeDeconstruction_Key
  \/ executeDeconstruction_KeyWait
  \/ executeDeconstruction_Commit
  \/ executeDeconstruction_Fail
  \/ \E r \in Rotators : rotate_NotFound(r)
  \/ \E r \in Rotators : rotate_Begin(r)
  \/ \E r \in Rotators : rotate_Fetch(r)
  \/ \E r \in Rotators : rotate_Write(r)
  \/ \E r \in Rotators : rotate_Commit(r)
  \/ \E r \in Rotators : rotate_Fail(r)
  \/ \E auth \in SUBSET Sets : reconstructDocument_Begin(auth)
  \/ reconstructDocument_ParseFail
  \/ reconstructDocument_Envelope
  \/ reconstructDocument_Key
  \/ reconstructDocument_Decrypt
  \/ reconstructDocument_Assemble
  \/ reconstructDocument_Return
  \/ \E regulatoryClearance \in BOOLEAN, retentionMet \in RetentionOutcomes :
       executeDestruction_Begin(regulatoryClearance, retentionMet)
  \/ executeDestruction_Delete
  \/ executeDestruction_Commit
  \/ executeDestruction_Fail
  \/ \E cs \in Sets : destroyContentSet(cs)

AnchorSpec == AnchorInit /\ [][AnchorNext]_vars

\* Deconstruction, rotation and destruction while the audit trail accepts
\* or refuses rows.
AuditInit ==
  /\ Approved
  /\ sss = SssIdle
  /\ aes = AesIdle
  /\ markup = NewSession
  /\ assignments = AssignmentChoices["S1"]
  /\ key_split = DefaultKeySplit
  /\ sink = "ok"
  /\ audit_store \in AuditStoreOutcomes

AuditNext ==
  \/ executeDeconstruction_Reject
  \/ \E sessionId \in SessionIds : executeDeconstruction_Begin(sessionId)
  \/ executeDeconstruction_Key
  \/ executeDeconstruction_KeyWait
  \/ executeDeconstruction_Commit
  \/ executeDeconstruction_Fail
  \/ \E r \in Rotators : rotate_NotFound(r)
  \/ \E r \in Rotators : rotate_Begin(r)
  \/ \E r \in Rotators : rotate_Fetch(r)
  \/ \E r \in Rotators : rotate_Write(r)
  \/ \E r \in Rotators : rotate_Commit(r)
  \/ \E r \in Rotators : rotate_Fail(r)
  \/ \E regulatoryClearance \in BOOLEAN, retentionMet \in RetentionOutcomes :
       executeDestruction_Reject(regulatoryClearance, retentionMet)
  \/ \E regulatoryClearance \in BOOLEAN, retentionMet \in RetentionOutcomes :
       executeDestruction_Begin(regulatoryClearance, retentionMet)
  \/ executeDestruction_Delete
  \/ executeDestruction_Commit
  \/ executeDestruction_Fail

AuditSpec == AuditInit /\ [][AuditNext]_vars

\* Deconstruction of an approved document, for every assignment table.
MarkerInit ==
  /\ Approved
  /\ sss = SssIdle
  /\ aes = AesIdle
  /\ markup = NewSession
  /\ audit_store = "ok"
  /\ assignments \in AssignmentTables
  /\ key_split = DefaultKeySplit
  /\ sink = "ok"

MarkerNext ==
  \/ executeDeconstruction_Reject
  \/ \E sessionId \in SessionIds : executeDeconstruction_Begin(sessionId)
  \/ executeDeconstruction_Key
  \/ executeDeconstruction_KeyWait
  \/ executeDeconstruction_Commit
  \/ executeDeconstruction_Fail

MarkerSpec == MarkerInit /\ [][MarkerNext]_vars

\* Deconstruction and rotation for every key split the tenant's security
\* profile can hold.
KeySplitInit ==
  /\ Approved
  /\ sss = SssIdle
  /\ aes = AesIdle
  /\ markup = NewSession
  /\ audit_store = "ok"
  /\ assignments = AssignmentChoices["S1"]
  /\ key_split \in KeySplitChoices
  /\ sink = "ok"

KeySplitNext ==
  \/ \E sessionId \in SessionIds : executeDeconstruction_Begin(sessionId)
  \/ executeDeconstruction_Key
  \/ executeDeconstruction_KeyWait
  \/ executeDeconstruction_SplitFail
  \/ executeDeconstruction_Commit
  \/ executeDeconstruction_Fail
  \/ \E r \in Rotators : rotate_NotFound(r)
  \/ \E r \in Rotators : rotate_Begin(r)
  \/ \E r \in Rotators : rotate_Fetch(r)
  \/ \E r \in Rotators : rotate_Write(r)
  \/ \E r \in Rotators : rotate_Commit(r)
  \/ \E r \in Rotators : rotate_Fail(r)

KeySplitSpec == KeySplitInit /\ [][KeySplitNext]_vars

\* ----------------------------------------- splitting and recovering a key
\* splitSecret(secret, threshold, totalShares): throws on its arguments or
\* returns the shares.
splitSecret_Call ==
  /\ sss.pc = "input"
  /\ LET error == splitSecretError(sss.threshold, sss.totalShares,
                                   Len(sss.secret))
     IN IF error # "none"
        THEN sss' = [sss EXCEPT !.pc = "rejected", !.result.error = error]
        ELSE \E randomCoeffs \in RandomCoeffs(Len(sss.secret), sss.threshold) :
               sss' = [sss EXCEPT
                 !.pc = "split",
                 !.shares = splitSecret(sss.secret, sss.threshold,
                                        sss.totalShares, randomCoeffs)]
  /\ UNCHANGED <<markup, audit_store, aes, key_split, sink, unanchored, marker_width, auditDestroyed,
                 tamper, legalHold, stored, docStatus, txStatus, docLock,
                 session, escalated, assignments, keys, hsm, nextKey, ecs,
                 base, shares, dec, rot, rec, des>>

\* reconstructSecret(shares, secret.length) on a selection of the shares.
reconstructSecret_Call ==
  /\ sss.pc = "split"
  /\ \E selection \in ShareSelections(sss.totalShares) :
       LET given == [k \in 1..Len(selection) |-> sss.shares[selection[k]]]
       IN sss' = [sss EXCEPT
            !.pc = "done", !.given = selection,
            !.result = reconstructSecret(given, Len(sss.secret))]
  /\ UNCHANGED <<markup, audit_store, aes, key_split, sink, unanchored, marker_width, auditDestroyed,
                 tamper, legalHold, stored, docStatus, txStatus, docLock,
                 session, escalated, assignments, keys, hsm, nextKey, ecs,
                 base, shares, dec, rot, rec, des>>

\* hsm.reconstructKeyFromShares on a selection of what splitKeyToShares
\* returned.
reconstructKeyFromShares_Call ==
  /\ sss.pc = "split"
  /\ \E selection \in ShareSelections(sss.totalShares) :
       LET shamirShares == splitKeyToShares(sss.shares)
           given == [k \in 1..Len(selection) |-> shamirShares[selection[k]]]
       IN sss' = [sss EXCEPT
            !.pc = "done", !.given = selection,
            !.result = reconstructKeyFromShares(given)]
  /\ UNCHANGED <<markup, audit_store, aes, key_split, sink, unanchored, marker_width, auditDestroyed,
                 tamper, legalHold, stored, docStatus, txStatus, docLock,
                 session, escalated, assignments, keys, hsm, nextKey, ecs,
                 base, shares, dec, rot, rec, des>>

ShamirInit ==
  /\ Approved
  /\ aes = AesIdle
  /\ markup = NewSession
  /\ audit_store = "ok"
  /\ assignments = AssignmentChoices["S1"]
  /\ key_split = DefaultKeySplit
  /\ sink = "ok"
  /\ \E secret \in Secrets, args \in SplitArguments :
       sss = [SssIdle EXCEPT !.pc = "input", !.secret = secret,
                             !.threshold = args.threshold,
                             !.totalShares = args.totalShares]

ShamirNext ==
  \/ splitSecret_Call
  \/ reconstructSecret_Call
  \/ reconstructKeyFromShares_Call

ShamirSpec == ShamirInit /\ [][ShamirNext]_vars

\* ---------------------------------- encrypting and decrypting a plaintext
encryptContentSet_Call ==
  /\ aes.pc = "input"
  /\ LET envelope == encryptContentSet(aes.plaintext, aes.key, "k1", aes.cs,
                                       aes.iv)
     IN aes' = [aes EXCEPT
          !.pc = IF envelope.error = "none" THEN "encrypted" ELSE "rejected",
          !.envelope = envelope]
  /\ UNCHANGED <<markup, audit_store, sss, key_split, sink, unanchored, marker_width, auditDestroyed,
                 tamper, legalHold, stored, docStatus, txStatus, docLock,
                 session, escalated, assignments, keys, hsm, nextKey, ecs,
                 base, shares, dec, rot, rec, des>>

decryptContentSet_Call ==
  /\ aes.pc = "encrypted"
  /\ \E key \in KeyBuffers :
       aes' = [aes EXCEPT !.pc = "decrypted", !.decKey = key,
                          !.result = decryptEnvelope(aes.envelope, key)]
  /\ UNCHANGED <<markup, audit_store, sss, key_split, sink, unanchored, marker_width, auditDestroyed,
                 tamper, legalHold, stored, docStatus, txStatus, docLock,
                 session, escalated, assignments, keys, hsm, nextKey, ecs,
                 base, shares, dec, rot, rec, des>>

AesInit ==
  /\ Approved
  /\ assignments = AssignmentChoices["S1"]
  /\ key_split = DefaultKeySplit
  /\ sink = "ok"
  /\ sss = SssIdle
  /\ audit_store = "ok"
  /\ markup = NewSession
  /\ \E plaintext \in Plaintexts, key \in KeyBuffers, cs \in Sets,
        iv \in InitializationVectors :
       aes = [AesIdle EXCEPT !.pc = "input", !.plaintext = plaintext,
                             !.key = key, !.cs = cs, !.iv = iv]

AesNext ==
  \/ encryptContentSet_Call
  \/ decryptContentSet_Call

AesSpec == AesInit /\ [][AesNext]_vars

\* ------------------------------------------- markup operations, undo, redo

\* One editable session and the three calls a redactor can make on it;
\* they touch nothing but the session's rows.
MarkupUnchanged ==
  UNCHANGED <<docStatus, txStatus, docLock, session, escalated, assignments,
              keys, hsm, nextKey, ecs, base, shares, dec, rot, rec, des,
              legalHold, stored, tamper, auditDestroyed, sink, unanchored,
              marker_width, key_split, sss, aes, audit_store>>

executeOperation_Call(type, contentSetIdentifier, blockId) ==
  /\ markup.operation_count < MaxOperations
  /\ markup' = executeOperation(markup, type, contentSetIdentifier, blockId)
  /\ MarkupUnchanged

undoOperation_Call ==
  /\ markup' = undoOperation(markup)
  /\ MarkupUnchanged

redoOperation_Call ==
  /\ markup' = redoOperation(markup)
  /\ MarkupUnchanged

MarkupNext ==
  \/ \E type \in MarkupOperationTypes, contentSetIdentifier \in Sets,
        blockId \in 1..MaxBlocks :
       executeOperation_Call(type, contentSetIdentifier, blockId)
  \/ undoOperation_Call
  \/ redoOperation_Call

MarkupSpec == Init /\ [][MarkupNext]_vars

\* ------------------------------------------------------------------ claims
\* C1: deconstruction is all-or-nothing.  When executeDeconstruction ends,
\* either it committed (status active; every key record, key-share row,
\* content set row and the base document it made exist) or it failed
\* (status approved; no key record, key-share row, content set row or base
\* document it made persists).
C1_AllOrNothing ==
  [][(dec.pc \in {"keys", "store"} /\ dec'.pc = "idle") =>
       IF docStatus' = "active"
       THEN /\ base'
            /\ \A m \in Range(dec.made) :
                 /\ HasKeyRow(m.key)'
                 /\ m.key \in shares'
                 /\ ecs'[m.cs].keyId = m.key
       ELSE /\ docStatus' = "approved"
            /\ base' = base
            /\ ecs' = ecs
            /\ \A m \in Range(dec.made) :
                 /\ ~HasKeyRow(m.key)'
                 /\ m.key \notin shares']_vars

\* C2: at every moment each content set of the document has at most one
\* encryption key record with is_active = true.
C2_AtMostOneActiveKey ==
  \A cs \in Sets : Cardinality(ActiveKeys(cs)) <= 1

\* C3: destruction is terminal: once the committed status is destroyed, no
\* deconstruct, reconstruct, rotate, destroy, review decision, escalation
\* resolution or intake disposition changes it again.
C3_DestroyedIsTerminal ==
  [][(docStatus = "destroyed" /\ ~submitForReview /\ ~createMarkupSession)
       => docStatus' = "destroyed"]_vars

\* C4: in a finished reconstruction a marker's block is unredacted if and
\* only if some content set of the marker's membership is authorized for
\* the viewer and was verified.
C4_VisibleIffAuthorized ==
  rec.pc = "done" =>
    \A p \in 1..Len(rec.view) :
      (~rec.view[p].isRedacted) <=>
        (\E s \in Range(Markers(rec.rows)[p].contentSetMembership) :
           s \in rec.auth /\ s \in rec.ok)

\* C5: a deconstruction that has moved the document to deconstructing
\* always has a next step: it is never left unable to reach its commit or
\* its rollback.
C5_DeconstructionTerminates ==
  dec.pc # "idle" =>
    ENABLED (executeDeconstruction_Key \/ executeDeconstruction_Commit
             \/ executeDeconstruction_Fail)

\* C6: among approved, deconstructing, active, destroying and destroyed the
\* status last written to the row only moves approved -> deconstructing,
\* deconstructing -> active, deconstructing -> approved, active -> destroying
\* and destroying -> destroyed.  The rollback of a transaction, which
\* withdraws a status that was never committed, is not counted.
C6_Allowed ==
  {<<"approved", "deconstructing">>, <<"deconstructing", "active">>,
   <<"deconstructing", "approved">>, <<"active", "destroying">>,
   <<"destroying", "destroyed">>}

C6_OnlyAllowedTransitions ==
  [][(/\ EffStatus \in CoreStatus
      /\ EffStatus' \in CoreStatus
      /\ EffStatus' # EffStatus
      /\ ~(txStatus # "none" /\ txStatus' = "none" /\ docStatus' = docStatus))
       => <<EffStatus, EffStatus'>> \in C6_Allowed]_vars

\* C7: a rotation that commits while a reconstruction holds an envelope it
\* has read, and whose key it has yet to resolve, leaves the reconstruction
\* resolving a key that decrypts that envelope.
C7_RotationKeepsPairing ==
  [][((\E r \in Rotators : rotate_Commit(r))
      /\ rec.pc = "key"
      /\ getActiveKeyRecord(Head(rec.todo)) = {rec.env}
      /\ rec.env \in hsm)
       => /\ getActiveKeyRecord(Head(rec.todo))' # {}
          /\ \A k \in getActiveKeyRecord(Head(rec.todo))' :
               decryptContentSet(rec.env, k, rec.cond)]_vars

\* C8: deconstruction and rotation on the document are serialized: at most
\* one of them is past its first read at any moment.
C8_Serialized ==
  Cardinality({r \in Rotators : rot[r].pc # "idle"})
    + (IF dec.pc # "idle" THEN 1 ELSE 0) <= 1

\* C9: when every stored content set decrypts and verifies right before a
\* rotation commits, the views a reconstruction can return right after the
\* commit are, for every viewer, the views it could return right before.
C9_SameViewAfterRotation ==
  [][((\E r \in Rotators : rotate_Commit(r))
      /\ \A cs \in Sets : \A k \in KeyChoices(cs) :
           ecs[cs].rowId # 0 => VerifiedWith(cs, k))
       => \A auth \in SUBSET Sets :
            \/ OkOutcomes(auth)' = OkOutcomes(auth)
            \/ ViewOutcomes(auth)' = ViewOutcomes(auth)]_vars

\* C10: no key record is the predecessor (rotated_from_key_id) of two
\* records, and a rotation deactivates only records that were active.
C10_OnePredecessorEach ==
  /\ \A k1 \in keys : \A k2 \in keys :
       (k1.from # 0 /\ k1.from = k2.from) => k1 = k2
  /\ \A k \in keys : (k.from # 0 /\ HasKeyRow(k.from)) => ~KeyRow(k.from).active

\* C11: whenever the committed status is destroyed, the document has no
\* encrypted content set rows, no base document and no key-share rows, every
\* encryption key record is inactive with destroyed_at set, and no HSM
\* handle of the document yields key material.
C11_DestroyedLeavesNothing ==
  docStatus = "destroyed" =>
    /\ \A s \in Sets : ecs[s] = NoRow
    /\ ~base
    /\ shares = {}
    /\ \A k \in keys : ~k.active /\ k.destroyed /\ k.id \notin hsm

\* C12: while executeDestruction is past its checks (status destroying
\* written, deletions under way or about to commit) the document has no
\* legal hold, regulatory clearance was supplied, and the effective
\* retention date was not in the future when it was checked.
C12_DestructionOnlyWhenCleared ==
  des.pc # "idle" => /\ ~legalHold
                     /\ des.regulatoryClearance
                     /\ des.retentionMet

\* C12 witness: a destruction of a deconstructed document is about to commit.
C12_Witness ==
  /\ des.pc = "commit"
  /\ base
  /\ keys # {}

\* C13: when executeDestruction of an active document fails after it has
\* set the status to destroying, the document is active again and as it
\* was before the call: rows unchanged, and every HSM key the call found
\* is still in the HSM.
C13_FailedDestructionRestores ==
  [][(executeDestruction_Fail /\ docStatus = "active") =>
       /\ docStatus' = "active"
       /\ <<ecs, base, keys, shares>>' = <<ecs, base, keys, shares>>
       /\ des.handlesDestroyed \subseteq hsm']_vars

\* C14: no operation takes a document whose status is intake,
\* intake_flagged or intake_cleared directly into a core-managed state
\* (approved, deconstructing, active, destroying, destroyed), either as a
\* committed status or as the status written by an open transaction.
C14_IntakeNeverEntersCore ==
  [][(docStatus \in {"intake", "intake_flagged", "intake_cleared"}) =>
       (docStatus' \notin CoreStatus /\ txStatus' \notin CoreStatus)]_vars

\* C15: executeDeconstruction on a document whose committed status is not
\* approved fails and changes nothing: no status, row, key, HSM entry or
\* task state differs after the call.
C15_RejectedDeconstructionChangesNothing ==
  [][executeDeconstruction_Reject => UNCHANGED vars]_vars

\* C15 witness: executeDeconstruction can be called on a deconstructed,
\* active document (it is rejected there).
C15_Witness ==
  /\ docStatus = "active"
  /\ base
  /\ dec.pc = "idle"
  /\ ENABLED executeDeconstruction_Reject

\* C16: executeDeconstruction commits only when the supplied session id
\* names the document's own markup session and that session is in
\* approved state; the assignments it stores are those of that session.
C16_OnlyApprovedSession ==
  [][executeDeconstruction_Commit =>
       /\ dec.sessionId = "S1"
       /\ SessionStatus(dec.sessionId) = "approved"
       /\ stored' = assignments]_vars

\* C17: a key rotation is accepted, and commits its new key records and
\* envelopes, only while the document's committed status is active.
C17_RotationOnlyWhenActive ==
  [][(\E r \in Rotators : rotate_Begin(r) \/ rotate_Commit(r)) =>
       docStatus = "active"]_vars

C19_BaseTamperHalts ==
  (~baseDocVerified /\ rec.pc # "idle") =>
    /\ rec.pc = "failed"
    /\ <<"document", "base_document_hash">> \in rec.audit
    /\ rec.view = <<>>
    /\ ~rec.event

\* C20: once the document has been destroyed by executeDestruction, every
\* reconstruct that starts afterwards fails and produces no view.
C20_NoReconstructionAfterDestruction ==
  [][(auditDestroyed /\ rec.pc = "idle" /\ rec'.pc # "idle") =>
       rec'.pc = "failed"]_vars

\* Every stored content set decrypts and verifies with any key a
\* reconstruction may resolve for it.
AllStoredVerify ==
  \A cs \in Sets : \A k \in KeyChoices(cs) :
    ecs[cs].rowId # 0 => VerifiedWith(cs, k)

\* What a viewer with authorizedSets = auth can be shown at marker p.
ShownAt(auth, p) ==
  {<<v[p].content, v[p].isRedacted>> : v \in ViewOutcomes(auth)}

\* What marker p showed that viewer while every set was stored and verified.
ShownIntact(auth, p) ==
  LET b == reconstructedBlocks(stored, auth, auth,
                               ProfileMarkerWidth(marker_width))[p]
  IN <<b.content, b.isRedacted>>

C22_SetDestructionRespectsHold ==
  [][(\E s \in Sets : destroyContentSet(s)) => ~legalHold]_vars

\* C23: after destroyContentSet(s) succeeds there is no envelope for s and
\* every key record of s, predecessors of rotations included, is inactive
\* with destroyed_at set, has no key-share rows and no HSM handle.
C23_SetDestructionLeavesNoKey ==
  [][\A s \in Sets :
       destroyContentSet(s) =>
         /\ ecs'[s] = NoRow
         /\ \A k \in keys' :
              k.cs = s => /\ ~k.active
                          /\ k.destroyed
                          /\ k.id \notin shares'
                          /\ k.id \notin hsm']_vars

\* The audit events of a reconstruct call that stand for the call itself:
\* document.reconstructed, written with the reconstruction_events row, or
\* the document-level event of a halted call.
PrimaryAuditEvents(r) ==
  (IF r.event THEN {<<"document", "document.reconstructed">>} ELSE {})
    \cup {e \in r.audit : e[1] = "document"}

\* C24: every reconstruct call that has ended, with a view or with an
\* error, has recorded exactly one primary audit event.
C24_OnePrimaryAuditEvent ==
  rec.pc \in {"done", "failed"} => Cardinality(PrimaryAuditEvents(rec)) = 1

\* C25: every reconstruction attempt that has ended, whether it produced a
\* view or not, has persisted its ReconstructionEvent row.
C25_EveryAttemptHasEvent ==
  rec.pc \in {"done", "failed"} => rec.event

\* C26: the integrity_all_passed flag a reconstruction persists is true
\* exactly when the base document hash verified and every authorized
\* content set was decrypted and verified in that reconstruction, which,
\* with every key in place, is when neither the base document nor the
\* envelope of an authorized set was altered.
C26_FlagIffAllVerified ==
  rec.pc = "done" =>
    /\ rec.integrityAllPassed <=> (baseDocVerified /\ rec.auth \subseteq rec.ok)
    /\ rec.integrityAllPassed <=>
         (~tamper.base /\ \A s \in rec.auth : tamper.sets[s] = "none")

\* C26 witness: a view was produced for a viewer authorized for A and B
\* where A verified, B's envelope failed its check and the flag is false.
C26_Witness ==
  /\ rec.pc = "done"
  /\ rec.auth = {"A", "B"}
  /\ "A" \in rec.ok
  /\ tamper.sets["B"] = "ciphertext"
  /\ ~rec.integrityAllPassed

\* C28: when a key rotation ends, by commit or by error, no buffer of key
\* material it obtained from the HSM is left without having been
\* overwritten with zeros.
C28_KeyMaterialZeroed ==
  [][\A r \in Rotators :
       (rot[r].pc # "idle" /\ rot'[r].pc = "idle") => rot[r].keyMaterial = {}]_vars

\* C30: in every view produced, the recorded marker_width w is between 3
\* and 10 and every redacted block carries the same string, the block
\* character repeated w times, whatever content it replaces.
C30_UniformMarker ==
  rec.pc = "done" =>
    /\ rec.markerWidth \in 3..10
    /\ \A p \in 1..Len(rec.view) :
         rec.view[p].isRedacted =>
           /\ rec.view[p].content = BlockRun[rec.markerWidth - 2]
           /\ Len(rec.view[p].content) = rec.markerWidth

\* C30 witness: a tenant with marker_width 7; a viewer with no authorized
\* set gets both blocks, one replacing text and one an empty selection,
\* redacted.
C30_Witness ==
  /\ rec.pc = "done"
  /\ marker_width = 7
  /\ rec.markerWidth = 7
  /\ Len(rec.view) = 2
  /\ \A p \in 1..2 : rec.view[p].isRedacted

\* C27: while the anchor sink answers with an error or cannot be reached,
\* a deconstruction, reconstruction, rotation or destruction that commits
\* still completes: its committed rows and status are in place, the view
\* is returned and the ReconstructionEvent kept, document.destroyed is
\* audited, and the transaction is left in the local log for a later
\* commit.
C27_SinkFailureIsOnlyAWarning ==
  [][(sink # "ok") =>
       /\ executeDeconstruction_Commit =>
            /\ docStatus' = "active"
            /\ base'
            /\ stored' = dec.rows
            /\ \A m \in Range(dec.made) : ecs'[m.cs].keyId = m.key
            /\ "document_deconstruction" \in unanchored'
       /\ \A r \in Rotators :
            rotate_Commit(r) =>
              /\ \A n \in Range(rot[r].pend) :
                   /\ HasKeyRow(n.new)' /\ KeyRow(n.new)'.active
                   /\ ~KeyRow(n.old)'.active
              /\ "key_rotation" \in unanchored'
       /\ reconstructDocument_Assemble =>
            /\ rec'.pc = "done"
            /\ rec'.event
            /\ "document_reconstruction" \in unanchored'
       /\ executeDestruction_Commit =>
            /\ docStatus' = "destroyed"
            /\ ~base'
            /\ auditDestroyed'
            /\ "document_destruction" \in unanchored']_vars

\* C27 witness: with the sink unreachable the document was deconstructed,
\* rotated, reconstructed and destroyed, each transaction logged locally.
C27_Witness ==
  /\ sink = "unreachable"
  /\ docStatus = "destroyed"
  /\ auditDestroyed
  /\ {"document_deconstruction", "key_rotation", "document_reconstruction",
      "document_destruction"} \subseteq unanchored

\* The content sets assigned at a position in an assignment table.
AssignedAt(rows, blk) == {rows[i].cs : i \in {k \in 1..Len(rows) : rows[k].blk = blk}}

C31_KeyRecordsHaveValidSplit ==
  \A k \in keys : /\ 2 <= k.shamir_threshold
                  /\ k.shamir_threshold <= k.shamir_total_shares
                  /\ k.shamir_total_shares <= MaxShares

\* C38: every active encryption key record owns its key-share rows (one per
\* share, indices 1..N), after deconstruction and after any number of key
\* rotations.
C38_ActiveKeysHaveShares ==
  \A k \in keys : k.active => k.id \in shares

\* C32: for any valid (M, N) and non-empty secret S, reconstructSecret
\* applied to any M distinct shares of splitSecret(S, M, N) returns S.
C32_SplitThenReconstruct ==
  (/\ sss.pc = "done"
   /\ Len(sss.given) = sss.threshold
   /\ Cardinality(Range(sss.given)) = sss.threshold)
    => sss.result = [error |-> "none", secret |-> sss.secret]

\* C33: reconstructing from fewer than M distinct shares of an (M, N) split
\* fails with an error instead of returning a value.
C33_TooFewSharesIsAnError ==
  (/\ sss.pc = "done"
   /\ Len(sss.given) < sss.threshold
   /\ Cardinality(Range(sss.given)) = Len(sss.given))
    => sss.result.error # "none"

C35_ErrorReported ==
  \/ executeDeconstruction_Reject
  \/ executeDeconstruction_Fail
  \/ executeDeconstruction_Commit /\ recordAuditEvent(audit_store).threw
  \/ \E r \in Rotators : rotate_NotFound(r)
  \/ \E r \in Rotators : rotate_Fail(r)
  \/ \E r \in Rotators :
       rotate_Commit(r) /\ recordAuditEvent(audit_store).threw
  \/ \E regulatoryClearance \in BOOLEAN, retentionMet \in RetentionOutcomes :
       executeDestruction_Reject(regulatoryClearance, retentionMet)
  \/ executeDestruction_Fail
  \/ executeDestruction_Commit /\ recordAuditEvent(audit_store).threw

C35_ErrorLeavesStateUnchanged ==
  [][C35_ErrorReported =>
       <<docStatus, keys, ecs, base, shares>>' = <<docStatus, keys, ecs, base, shares>>]_vars

\* C36: an operation that the truncation of the redo stack has discarded
\* stays undone and none of its assignments is in content_set_assignments,
\* whatever undo and redo calls follow.
C36_TruncatedStayDiscarded ==
  \A n \in markup.truncated :
     /\ markup.operations[n].is_undone
     /\ \A a \in markup.content_set_assignments : a.created_by_operation_id # n

\* C37: the assigned (content set, block) pairs of content_set_assignments
\* are those obtained by replaying, in sequence order, the operations that
\* are not undone.
RECURSIVE C37_Replay(_, _)
C37_Replay(operations, n) ==
  IF n = 0 THEN {}
  ELSE LET before == C37_Replay(operations, n - 1)
           op == operations[n]
           pair == <<op.content_set_identifier, op.block_id>>
       IN IF op.is_undone THEN before
          ELSE IF op.type \in {"assign", "bulk_assign"}
               THEN before \cup {pair}
               ELSE before \ {pair}

C37_AssignmentsEqualReplay ==
  {<<a.content_set_identifier, a.block_id>> : a \in markup.content_set_assignments}
    = C37_Replay(markup.operations, Len(markup.operations))

\* C39: content_sets_used of a recorded reconstruction names only sets
\* whose envelope was found, verified and decrypted in that reconstruction.
C39_UsedSetsWereDecrypted ==
  rec.event => rec.contentSetsUsed \subseteq rec.found \cap rec.ok

====
